---------------------------- MODULE Spec2Model ----------------------------
(***************************************************************************)
(* Config-tree query/update utilities, runner patching and the NNCF task    *)
(* lifecycle of training_extensions (otx).                                  *)
(*                                                                          *)
(* Value model of a config tree.  A node is a record with ONE field whose   *)
(* name is the node's Python type:                                          *)
(*   [map   |-> <<[key |-> k, value |-> n], ...>>]  Config / ConfigDict /   *)
(*                                   dict, entries in insertion order       *)
(*   [list  |-> <<n, ...>>]          list                                   *)
(*   [tuple |-> <<n, ...>>]          tuple                                  *)
(*   [int |-> i], [str |-> s], [none |-> TRUE]     scalars (None is none)   *)
(*   [bool |-> b], [set |-> S]       bool, set                              *)
(* A key is [s |-> "name"] (a str) or [i |-> n] (an int).  Trees have value *)
(* semantics: no two positions of a config share one Python object.         *)
(*                                                                          *)
(* The specifications share the variables:                                  *)
(*   SpecConfig  update_config and the two tree queries on a config tree    *)
(*   SpecRunner  patch_runner and the runner part of patch_config           *)
(*   SpecTask    the NNCFBaseTask life cycle: __init__, optimize            *)
(*   SpecCli     main() of the training tool, statement by statement        *)
(*   SpecPatches the import of the NNCF patches modules and evaluate calls  *)
(*   SpecData    the detection patch_config and the dataset patches         *)
(*   SpecQuery   the queries that return lists, a query written back, and   *)
(*               update_config with two items                               *)
(*   SpecAlign   align_data_config_with_recipe on a data config and recipe  *)
(* Every call records its arguments in call, its outcome in ret and the     *)
(* config it started from in prev, so that a property of one call is a      *)
(* property of the state the call leaves.                                   *)
(***************************************************************************)
EXTENDS Integers, Sequences, FiniteSets, TLC

VARIABLES
    config,     \* the config tree the utilities work on (a map node)
    prev,       \* config as it was when the last call started
    call,       \* the last call: its name and arguments
    ret,        \* what the last call returned or raised
    ncalls,     \* number of calls counted against the bound of the specification
    task,       \* the attributes of the NNCFBaseTask instance
    output_model, \* the ModelEntity handed to optimize
    pc,         \* where the task is: "new", "idle", "in_optimize", "failed"
    events,     \* what the last optimize call (or main) did, in order
    hyper_parameters, \* main: the template's hyper-parameters
    environment,      \* main: the TaskEnvironment
    modules,    \* sys.modules: the patches modules imported so far
    classes,    \* the attributes of the classes the patches modules touch
    mmcv_runner \* the runner handed to evaluate: log_buffer.output, all_metrics

cvars == <<config, prev, call, ret, ncalls>>
tvars == <<task, output_model, pc, events>>
\* the variables of main
mvars == <<hyper_parameters, environment>>
\* the variables of the patches modules
pvars == <<modules, classes, mmcv_runner>>
vars == <<config, prev, call, ret, ncalls, task, output_model, pc, events,
          hyper_parameters, environment, modules, classes, mmcv_runner>>

---------------------------------------------------------------------------
(* Bounds of the model *)

\* update_config calls in one behaviour
MaxCalls == 1
\* longest path handed to update_config
MaxPathLen == 2
\* patch_runner / patch_config calls in one behaviour
MaxPatches == 2
\* optimize calls in one behaviour
MaxOptimize == 2

---------------------------------------------------------------------------
(* Nodes and keys *)

K(name) == [s |-> name]
Idx(n) == [i |-> n]
IsInt(key) == "i" \in DOMAIN key

Int_(n) == [int |-> n]
Str(s) == [str |-> s]
None == [none |-> TRUE]
Map(entries) == [map |-> entries]
List(items) == [list |-> items]
Tuple(items) == [tuple |-> items]
E(k, v) == [key |-> k, value |-> v]

\* ConfigDict(): a new empty mapping
ConfigDict == Map(<<>>)

\* isinstance(node, (Config, Mapping))
IsMapping(node) == "map" \in DOMAIN node
IsList(node) == "list" \in DOMAIN node
IsTuple(node) == "tuple" \in DOMAIN node
\* isinstance(node, (list, tuple))
IsSequence(node) == IsList(node) \/ IsTuple(node)
IsNone(node) == "none" \in DOMAIN node
IsStr(node) == "str" \in DOMAIN node

Items(node) == IF IsList(node) THEN node.list ELSE node.tuple
WithItems(node, items) == IF IsList(node) THEN List(items) ELSE Tuple(items)

\* key in mapping
Contains(m, key) == \E i \in 1..Len(m.map) : m.map[i].key = key
PosOf(m, key) == CHOOSE i \in 1..Len(m.map) : m.map[i].key = key
\* mapping[key], for a key the mapping contains
GetItem(m, key) == m.map[PosOf(m, key)].value
\* a store that deletes the key first, so that an overwritten key moves last
SetItem_MoveLast(m, key, value) ==
    Map(Append(SelectSeq(m.map, LAMBDA e : e.key # key), [key |-> key, value |-> value]))

\* mapping[key] = value: an existing key keeps its position, a new key is
\* inserted last (dict insertion order)
SetItem(m, key, value) ==
    IF Contains(m, key)
    THEN Map([m.map EXCEPT ![PosOf(m, key)] = E(key, value)])
    ELSE Map(Append(m.map, E(key, value)))
\* del mapping[key]
DelItem(m, key) ==
    Map(SelectSeq(m.map, LAMBDA e : e.key # key))
\* mapping.get(key, None)
GetOrNone(m, key) == IF Contains(m, key) THEN GetItem(m, key) ELSE None

---------------------------------------------------------------------------
(* update_config *)

Ok == "ok"

\* Python's seq[key] for an int key: valid for -len <= key < len
ValidIndex(n, len) == -len <= n /\ n < len
\* 1-based position of Python index n in a sequence of length len
At(n, len) == IF n >= 0 THEN n + 1 ELSE len + n + 1

\* the bounds assertion of update_config on a sequence step
BoundsAssert(len, n) == len < n

\* if key not in ptr: ptr[key] = ConfigDict()
CreateIfAbsent(ptr, key) ==
    IF Contains(ptr, key) THEN ptr ELSE SetItem(ptr, key, ConfigDict)

\* the assignment of the value forgotten
StoreValue_Dropped(ptr, key, value) == ptr

\* if len(path_) == 0: ptr[key] = value, on a mapping
StoreValue(ptr, key, value) == SetItem(ptr, key, value)

\* One iteration of the while loop on ptr, then the rest of the loop on
\* ptr[key]; path is the part of the path not yet popped (non-empty).
\* Yields the node ptr has become and the outcome: Ok or the error raised.
RECURSIVE Walk(_, _, _)
Walk(ptr, path, value) ==
    LET key == Head(path)
        rest == Tail(path)
        last == rest = <<>>
    IN
    IF IsMapping(ptr) THEN
        LET created == CreateIfAbsent(ptr, key)
        IN  IF last THEN [node |-> StoreValue(created, key, value), err |-> Ok]
            ELSE LET sub == Walk(GetItem(created, key), rest, value)
                 IN  [node |-> SetItem(created, key, sub.node), err |-> sub.err]
    ELSE IF IsSequence(ptr) THEN
        LET len == Len(Items(ptr)) IN
        IF ~IsInt(key) THEN [node |-> ptr, err |-> "AssertionError"]
        ELSE IF ~BoundsAssert(len, key.i)
            THEN [node |-> ptr, err |-> "AssertionError"]
        ELSE IF last THEN
            \* ptr[key] = value
            IF IsTuple(ptr) THEN [node |-> ptr, err |-> "TypeError"]
            ELSE IF ~ValidIndex(key.i, len)
                THEN [node |-> ptr, err |-> "IndexError"]
            ELSE [node |-> List([Items(ptr) EXCEPT ![At(key.i, len)] = value]),
                  err |-> Ok]
        ELSE
            \* ptr = ptr[key]
            IF ~ValidIndex(key.i, len) THEN [node |-> ptr, err |-> "IndexError"]
            ELSE LET sub == Walk(Items(ptr)[At(key.i, len)], rest, value)
                 IN  [node |-> WithItems(ptr, [Items(ptr) EXCEPT
                                                  ![At(key.i, len)] = sub.node]),
                      err |-> sub.err]
    ELSE IF IsStr(ptr) THEN
        \* a str takes no item assignment; str[int] is a one-character str
        IF last \/ ~IsInt(key) THEN [node |-> ptr, err |-> "TypeError"]
        ELSE IF ~ValidIndex(key.i, Len(ptr.str))
            THEN [node |-> ptr, err |-> "IndexError"]
        ELSE [node |-> ptr, err |-> Walk(Str("c"), rest, value).err]
    ELSE
        \* int or None: not subscriptable
        [node |-> ptr, err |-> "TypeError"]

\* the body of the for loop for one (path, value) item
UpdateOne(cfg, path, value) ==
    IF path = <<>> THEN [node |-> cfg, err |-> Ok]
    ELSE Walk(cfg, path, value)

\* update_config(config, updates): updates is the dict as the sequence of its
\* items [path, value]; the first error ends the call, what was written
\* before it stays written
RECURSIVE update_config(_, _)
update_config(cfg, updates) ==
    IF updates = <<>> THEN [node |-> cfg, err |-> Ok]
    ELSE LET one == UpdateOne(cfg, Head(updates).path, Head(updates).value)
         IN  IF one.err # Ok THEN one
             ELSE update_config(one.node, Tail(updates))

---------------------------------------------------------------------------
(* get_configs_by_keys, get_configs_by_dict *)

\* A dict from paths to nodes is the sequence of its items [path, node] in
\* insertion order.
HasPath(d, path) == \E i \in 1..Len(d) : d[i].path = path

\* d[item.path] = item.node
DictSet(d, item) ==
    IF HasPath(d, item.path)
    THEN [i \in 1..Len(d) |-> IF d[i].path = item.path THEN item ELSE d[i]]
    ELSE Append(d, item)

\* d.update(other)
RECURSIVE DictUpdate(_, _)
DictUpdate(d, other) ==
    IF other = <<>> THEN d
    ELSE DictUpdate(DictSet(d, Head(other)), Tail(other))

\* the children visited last to first
VisitOrder_Reversed(n) == [i \in 1..n |-> n + 1 - i]

\* the order in which `for key, value in config.items()` and
\* `for idx, value in enumerate(config)` visit positions 1..n
VisitOrder(n) == [i \in 1..n |-> i]

\* the children of a container node, as [key, value], in the order given
Children(node) ==
    IF IsMapping(node) THEN node.map
    ELSE IF IsSequence(node)
        THEN [i \in 1..Len(Items(node)) |-> E(Idx(i - 1), Items(node)[i])]
    ELSE <<>>

\* keys = [keys] unless keys is a list; a keys argument is [list |-> <<k..>>]
\* or a bare key
KeyList(keys) == IF "list" \in DOMAIN keys THEN keys.list ELSE <<keys>>

\* key in keys
InKeys(key, keylist) == \E i \in 1..Len(keylist) : keylist[i] = key

\* the first element of the path tested in place of the last
KeyMatch_First(path, keylist) == path # <<>> /\ InKeys(path[1], keylist)

\* path and path[-1] in keys
KeyMatch(path, keylist) == path # <<>> /\ InKeys(path[Len(path)], keylist)

\* get_configs_by_keys.get_config(config, path)
RECURSIVE KeysGetConfig(_, _, _)
RECURSIVE KeysLoop(_, _, _, _, _)
KeysGetConfig(node, path, keylist) ==
    IF KeyMatch(path, keylist) THEN <<[path |-> path, node |-> node]>>
    ELSE IF IsMapping(node) \/ IsSequence(node)
        THEN KeysLoop(Children(node), VisitOrder(Len(Children(node))), path, keylist, <<>>)
    ELSE <<>>
\* the for loop over the children: out.update(get_config(value, (*path, key)))
KeysLoop(children, order, path, keylist, out) ==
    IF order = <<>> THEN out
    ELSE LET c == children[Head(order)]
         IN  KeysLoop(children, Tail(order), path, keylist,
                      DictUpdate(out, KeysGetConfig(c.value, Append(path, c.key), keylist)))

\* get_configs_by_keys(config, keys, return_path=True)
get_configs_by_keys(cfg, keys) == KeysGetConfig(cfg, <<>>, KeyList(keys))

\* config.get(key, None) == value, for one item of pairs
PairHolds(node, pair) == GetOrNone(node, pair.key) = pair.value

\* any() in place of all()
PairsMatch_Any(node, pairs) == \E i \in 1..Len(pairs) : PairHolds(node, pairs[i])

\* all(config.get(key, None) == value for key, value in pairs.items())
PairsMatch(node, pairs) == \A i \in 1..Len(pairs) : PairHolds(node, pairs[i])

\* get_configs_by_dict.get_config(config, path)
RECURSIVE DictGetConfig(_, _, _)
RECURSIVE DictLoop(_, _, _, _, _)
DictGetConfig(node, path, pairs) ==
    IF IsMapping(node) /\ PairsMatch(node, pairs)
        THEN <<[path |-> path, node |-> node]>>
    ELSE IF IsMapping(node) \/ IsSequence(node)
        THEN DictLoop(Children(node), VisitOrder(Len(Children(node))), path, pairs, <<>>)
    ELSE <<>>
DictLoop(children, order, path, pairs, out) ==
    IF order = <<>> THEN out
    ELSE LET c == children[Head(order)]
         IN  DictLoop(children, Tail(order), path, pairs,
                      DictUpdate(out, DictGetConfig(c.value, Append(path, c.key), pairs)))

\* get_configs_by_dict(config, pairs, return_path=True); pairs is the dict as
\* the sequence of its items [key, value]
get_configs_by_dict(cfg, pairs) == DictGetConfig(cfg, <<>>, pairs)

---------------------------------------------------------------------------
(* Inputs *)

StrKeys == {K("a"), K("b")}
PathKeys == StrKeys \cup {Idx(1)}

RECURSIVE SeqsUpTo(_, _)
SeqsUpTo(S, n) ==
    IF n = 0 THEN {<<>>}
    ELSE LET shorter == SeqsUpTo(S, n - 1)
         IN  shorter \cup {Append(p, k) : p \in {q \in shorter : Len(q) = n - 1}, k \in S}

Paths == SeqsUpTo(PathKeys, MaxPathLen)

Values ==
    { Int_(1),
      List(<<Map(<<E(K("a"), Int_(1))>>), None>>) }

Seeds ==
    { ConfigDict,
      Map(<<E(K("b"), Map(<<E(K("a"), Int_(2)), E(K("b"), Map(<<E(K("a"), Int_(1))>>))>>)),
            E(K("a"), List(<<Map(<<E(K("b"), Int_(1)), E(K("a"), Int_(1))>>),
                             Map(<<E(K("a"), Int_(1))>>),
                             Map(<<E(K("b"), Int_(1)), E(K("a"), None)>>)>>))>>),
      Map(<<E(K("a"), Tuple(<<Int_(1),
                              Map(<<E(K("b"), List(<<List(<<Int_(1), Map(<<E(K("a"), Int_(1))>>)>>)>>)),
                                    E(K("a"), Int_(1))>>)>>)),
            E(K("b"), List(<<>>)),
            E(Idx(1), Str("xy"))>>) }

KeysArgs ==
    { K("a"),
      List(<<K("a")>>),
      List(<<K("b"), K("a")>>),
      List(<<Idx(1), K("b")>>),
      Idx(0),
      List(<<>>) }

PairsArgs ==
    { <<>>,
      <<E(K("a"), Int_(1))>>,
      <<E(K("b"), Int_(1)), E(K("a"), Int_(1))>>,
      <<E(K("a"), None)>>,
      <<E(K("b"), List(<<>>))>> }

---------------------------------------------------------------------------
(* Actions *)

\* the task variables, in the specifications that are about configs only
\* the training tool not started
NoCli ==
    /\ hyper_parameters = None
    /\ environment = None

\* no patches module imported and no class looked at
NoPatches ==
    /\ modules = {}
    /\ classes = None
    /\ mmcv_runner = None

NoTask ==
    /\ NoCli
    /\ NoPatches
    /\ task = None
    /\ output_model = None
    /\ pc = "new"
    /\ events = <<>>

InitConfig ==
    /\ NoTask
    /\ config \in Seeds
    /\ prev = config
    /\ call = [op |-> "none"]
    /\ ret = [err |-> Ok]
    /\ ncalls = 0

\* update_config(config, {path: value})
UpdateConfig ==
    /\ ncalls < MaxCalls
    /\ \E path \in Paths, value \in Values :
        LET updates == <<[path |-> path, value |-> value]>>
            res == update_config(config, updates)
        IN  /\ config' = res.node
            /\ prev' = config
            /\ call' = [op |-> "update_config", updates |-> updates]
            /\ ret' = [err |-> res.err]
            /\ ncalls' = ncalls + 1

\* get_configs_by_keys(config, keys, return_path=True)
GetConfigsByKeys ==
    \E keys \in KeysArgs :
        /\ call' = [op |-> "get_configs_by_keys", keys |-> keys]
        /\ ret' = [out |-> get_configs_by_keys(config, keys)]
        /\ prev' = config
        /\ UNCHANGED <<config, ncalls>>

\* get_configs_by_dict(config, pairs, return_path=True)
GetConfigsByDict ==
    \E pairs \in PairsArgs :
        /\ call' = [op |-> "get_configs_by_dict", pairs |-> pairs]
        /\ ret' = [out |-> get_configs_by_dict(config, pairs)]
        /\ prev' = config
        /\ UNCHANGED <<config, ncalls>>

NextConfig ==
    \/ UpdateConfig /\ UNCHANGED <<tvars, mvars, pvars>>
    \/ GetConfigsByKeys /\ UNCHANGED <<tvars, mvars, pvars>>
    \/ GetConfigsByDict /\ UNCHANGED <<tvars, mvars, pvars>>

SpecConfig == InitConfig /\ [][NextConfig]_vars

---------------------------------------------------------------------------
(* patch_runner, and the runner part of the detection patch_config *)

\* config.key for a key the mapping holds; ConfigDict raises AttributeError
\* for a missing attribute
HasAttr(m, name) == Contains(m, K(name))
Attr(m, name) == GetItem(m, K(name))
SetAttr(m, name, value) == SetItem(m, K(name), value)

\* remove_from_config(config, key)
remove_from_config(cfg, name) ==
    IF HasAttr(cfg, name) THEN DelItem(cfg, K(name)) ELSE cfg

\* the words a runner type name is made of
TypeWords(type) ==
    CASE type = "EpochBasedRunner" -> <<"Epoch", "Based", "Runner">>
      [] type = "IterBasedRunner" -> <<"Iter", "Based", "Runner">>
      [] type = "EpochRunnerWithCancel" -> <<"Epoch", "Runner", "With", "Cancel">>
      [] type = "IterBasedRunnerWithCancel" -> <<"Iter", "Based", "Runner", "With", "Cancel">>
      [] type = "AccuracyAwareRunner" -> <<"Accuracy", "Aware", "Runner">>

\* "Epoch" in runner_config.type
is_epoch_based_runner(runner) ==
    \E i \in 1..Len(TypeWords(Attr(runner, "type").str)) :
        TypeWords(Attr(runner, "type").str)[i] = "Epoch"

ConflictWarning == "Conflicting declaration of training epochs number."
IterWarning == "Total number of epochs set for an iteration based runner"

\* "Move global definition of epochs inside runner config": the block
\* under `if "total_epochs" in config`, for a config that has a runner
MoveTotalEpochs(cfg) ==
    IF ~HasAttr(cfg, "total_epochs")
        THEN [node |-> cfg, err |-> Ok, warnings |-> <<>>]
    ELSE
        LET runner == Attr(cfg, "runner")
            total == Attr(cfg, "total_epochs")
        IN  IF is_epoch_based_runner(runner) THEN
                \* config.runner.max_epochs != config.total_epochs
                IF ~HasAttr(runner, "max_epochs")
                    THEN [node |-> cfg, err |-> "AttributeError", warnings |-> <<>>]
                ELSE
                    [node |-> remove_from_config(
                                  SetAttr(cfg, "runner", SetAttr(runner, "max_epochs", total)),
                                  "total_epochs"),
                     err |-> Ok,
                     warnings |-> IF HasAttr(runner, "max_epochs")
                                     /\ Attr(runner, "max_epochs") # total
                                  THEN <<ConflictWarning>> ELSE <<>>]
            ELSE
                [node |-> remove_from_config(cfg, "total_epochs"),
                 err |-> Ok,
                 warnings |-> <<IterWarning>>]

\* "Change runner's type."
ReplaceRunnerType(cfg) ==
    LET runner == Attr(cfg, "runner")
    IN  IF is_epoch_based_runner(runner)
        THEN SetAttr(cfg, "runner", SetAttr(runner, "type", Str("EpochRunnerWithCancel")))
        ELSE SetAttr(cfg, "runner", SetAttr(runner, "type", Str("IterBasedRunnerWithCancel")))

\* the two blocks, shared by patch_runner and patch_config
PatchRunnerBlocks(cfg) ==
    LET moved == MoveTotalEpochs(cfg)
    IN  IF moved.err # Ok THEN moved
        ELSE [moved EXCEPT !.node = ReplaceRunnerType(moved.node)]

\* patch_runner(config)
patch_runner(cfg) ==
    IF ~HasAttr(cfg, "runner")
    THEN [node |-> cfg, err |-> "AssertionError", warnings |-> <<>>]
    ELSE PatchRunnerBlocks(cfg)

\* patch_config(config, ...), from "Set runner if not defined" to "Change
\* runner's type"
patch_config_runner(cfg) ==
    PatchRunnerBlocks(
        IF HasAttr(cfg, "runner") THEN cfg
        ELSE SetAttr(cfg, "runner", Map(<<E(K("type"), Str("EpochBasedRunner"))>>)))

RunnerTypes ==
    { "EpochBasedRunner", "IterBasedRunner", "EpochRunnerWithCancel",
      "IterBasedRunnerWithCancel", "AccuracyAwareRunner" }
EpochCounts == {1, 2}

RunnerConfigs ==
    { Map(<<E(K("type"), Str(t))>>) : t \in RunnerTypes }
    \cup { Map(<<E(K("type"), Str(t)), E(K("max_epochs"), Int_(n))>>) :
             t \in RunnerTypes, n \in EpochCounts }

RunnerSeeds ==
    LET runners == {<<>>} \cup {<<E(K("runner"), r)>> : r \in RunnerConfigs}
        totals == {<<>>} \cup {<<E(K("total_epochs"), Int_(n))>> : n \in EpochCounts}
    IN  { Map(t \o r \o <<E(K("work_dir"), Str("w"))>>) : t \in totals, r \in runners }

InitRunner ==
    /\ NoTask
    /\ config \in RunnerSeeds
    /\ prev = config
    /\ call = [op |-> "none"]
    /\ ret = [err |-> Ok, warnings |-> <<>>]
    /\ ncalls = 0

\* patch_runner(config)
PatchRunner ==
    /\ ncalls < MaxPatches
    /\ LET res == patch_runner(config)
       IN  /\ config' = res.node
           /\ prev' = config
           /\ call' = [op |-> "patch_runner"]
           /\ ret' = [err |-> res.err, warnings |-> res.warnings]
           /\ ncalls' = ncalls + 1

\* the runner part of patch_config(config, work_dir, labels, domain)
PatchConfigRunner ==
    /\ ncalls < MaxPatches
    /\ LET res == patch_config_runner(config)
       IN  /\ config' = res.node
           /\ prev' = config
           /\ call' = [op |-> "patch_config"]
           /\ ret' = [err |-> res.err, warnings |-> res.warnings]
           /\ ncalls' = ncalls + 1

NextRunner ==
    \/ PatchRunner /\ UNCHANGED <<tvars, mvars, pvars>>
    \/ PatchConfigRunner /\ UNCHANGED <<tvars, mvars, pvars>>

SpecRunner == InitRunner /\ [][NextRunner]_vars

---------------------------------------------------------------------------
(* NNCFBaseTask: __init__, optimize, save_model *)

\* the attributes NNCFBaseTask.__init__ sets before it reads the
\* hyper-parameters; model_ckpt is the checkpoint the base class loaded
NewTask(quantization, pruning, model_ckpt) ==
    [ enable_quantization |-> quantization,
      enable_pruning |-> pruning,
      _nncf_preset |-> None,
      _optimization_methods |-> <<>>,
      _precision |-> <<"FP32">>,
      _is_training |-> FALSE,
      _should_stop |-> FALSE,
      _optimization_type |-> "NNCF",
      _data_cfg |-> None,
      _time_monitor |-> None,
      _model_ckpt |-> model_ckpt ]

\* the precision of the quantization branches copied into the pruning branch
PruningOnly_Int8(t) ==
    [t EXCEPT !._nncf_preset = Str("nncf_pruning"),
              !._optimization_methods = <<"FILTER_PRUNING">>,
              !._precision = <<"INT8">>]

\* the branch of _set_attributes_by_hyperparams that sets the attributes for
\* pruning without quantization
PruningOnly(t) ==
    [t EXCEPT !._nncf_preset = Str("nncf_pruning"),
              !._optimization_methods = <<"FILTER_PRUNING">>,
              !._precision = <<"FP32">>]

\* _set_attributes_by_hyperparams(self)
_set_attributes_by_hyperparams(t) ==
    LET quantization == t.enable_quantization
        pruning == t.enable_pruning
    IN  IF quantization /\ pruning THEN
            [task |-> [t EXCEPT !._nncf_preset = Str("nncf_quantization_pruning"),
                                !._optimization_methods = <<"QUANTIZATION", "FILTER_PRUNING">>,
                                !._precision = <<"INT8">>],
             err |-> Ok]
        ELSE IF quantization /\ ~pruning THEN
            [task |-> [t EXCEPT !._nncf_preset = Str("nncf_quantization"),
                                !._optimization_methods = <<"QUANTIZATION">>,
                                !._precision = <<"INT8">>],
             err |-> Ok]
        ELSE IF ~quantization /\ pruning THEN
            [task |-> PruningOnly(t), err |-> Ok]
        ELSE [task |-> t, err |-> "RuntimeError"]

\* a ModelEntity nothing has been written to
NewModel ==
    [ data |-> {},
      model_format |-> "OPENVINO",
      optimization_type |-> "NONE",
      optimization_methods |-> <<>>,
      precision |-> <<>> ]

\* the type check left out
TypeSupported_Any(optimization_type) == TRUE

\* the guard of optimize: NNCF is the only supported optimization
TypeSupported(optimization_type) == optimization_type = "NNCF"

\* optimize up to the call of _optimize: the type check, the progress
\* callback, the data config, _is_training
OptimizeEnter(t, optimization_type, dataset, callback) ==
    IF ~TypeSupported(optimization_type)
    THEN [task |-> t, err |-> "RuntimeError", events |-> <<>>]
    ELSE [task |-> [t EXCEPT !._time_monitor = [update_progress |-> callback],
                            !._data_cfg = [otx_dataset |-> dataset],
                            !._is_training = TRUE],
          err |-> Ok,
          events |-> <<"_init_train_data_cfg", "_optimize">>]

\* save_model(output_model): the weights and the label schema are written
save_model(model) ==
    [model EXCEPT !.data = model.data \cup {"weights.pth", "label_schema.json"}]

\* the stop signal never looked at
Cancelled_Never(t) == FALSE

\* the branch of optimize taken when training was cancelled
Cancelled(t) == t._should_stop

\* what optimize does once the merged checkpoint is in self._model_ckpt, in
\* the order of the code
PublishSteps == <<"torch.save", "_optimize_post_hook", "save_model", "set_output_model">>

\* optimize from the return of _optimize on.  results are the paths
\* _optimize returned; loads tells whether torch.load can read them;
\* saves tells whether save_model succeeds.
OptimizeLeave(t, model, results, loads, saves) ==
    IF Cancelled(t) THEN
        [task |-> [t EXCEPT !._should_stop = FALSE, !._is_training = FALSE],
         model |-> model, err |-> Ok, events |-> <<"cancelled">>]
    ELSE IF ~loads THEN
        [task |-> t, model |-> model, err |-> "IOError", events |-> <<"torch.load">>]
    ELSE
        LET ckpt == [t EXCEPT !._model_ckpt = Str(results)]
            loaded == <<"torch.load", "torch.load", "torch.load">>
        IN  IF ~saves THEN
                [task |-> ckpt, model |-> model, err |-> "KeyError",
                 events |-> loaded \o SubSeq(PublishSteps, 1, 3)]
            ELSE
                [task |-> [ckpt EXCEPT !._is_training = FALSE],
                 model |-> [save_model(model) EXCEPT
                              !.model_format = "BASE_FRAMEWORK",
                              !.optimization_type = t._optimization_type,
                              !.optimization_methods = t._optimization_methods,
                              !.precision = t._precision],
                 err |-> Ok,
                 events |-> loaded \o PublishSteps]

OptimizationTypes == {"NNCF", "POT"}
Datasets == {"ds1", "ds2"}
Callbacks == {"default_progress_callback", "update_progress"}
\* where _optimize left the final checkpoint: <dir>/temporary.pth
TemporaryPaths == {"w1/temporary.pth", "w2/temporary.pth"}
LoadedCheckpoints == {None, Str("base.pth")}

\* the config variables, in the specification that is about the task only
NoConfig ==
    /\ config = ConfigDict
    /\ prev = ConfigDict
    /\ ncalls = 0

InitTask ==
    /\ NoConfig
    /\ NoCli
    /\ NoPatches
    /\ task = None
    /\ output_model = NewModel
    /\ pc = "new"
    /\ events = <<>>
    /\ call = [op |-> "none"]
    /\ ret = [err |-> Ok]

\* NNCFBaseTask(task_environment)
Construct ==
    /\ pc = "new"
    /\ \E quantization \in BOOLEAN, pruning \in BOOLEAN, ckpt \in LoadedCheckpoints :
        LET res == _set_attributes_by_hyperparams(NewTask(quantization, pruning, ckpt))
        IN  /\ task' = res.task
            /\ pc' = IF res.err = Ok THEN "idle" ELSE "failed"
            /\ call' = [op |-> "__init__", enable_quantization |-> quantization,
                        enable_pruning |-> pruning]
            /\ ret' = [err |-> res.err]
    /\ UNCHANGED <<output_model, events, config, prev, ncalls>>

\* optimize(optimization_type, dataset, output_model, optimization_parameters)
\* is called and runs until it calls _optimize
OptimizeCall ==
    /\ pc = "idle"
    /\ ncalls < MaxOptimize
    /\ \E optimization_type \in OptimizationTypes, dataset \in Datasets,
          callback \in Callbacks :
        LET res == OptimizeEnter(task, optimization_type, dataset, callback)
        IN  /\ task' = res.task
            /\ events' = res.events
            /\ pc' = IF res.err = Ok THEN "in_optimize" ELSE "idle"
            /\ call' = [op |-> "optimize", optimization_type |-> optimization_type,
                        task |-> task, output_model |-> output_model]
            /\ ret' = [err |-> res.err]
    /\ ncalls' = ncalls + 1
    /\ UNCHANGED <<output_model, config, prev>>

\* cancel_training() while _optimize runs: the stop flag is raised
CancelTraining ==
    /\ pc = "in_optimize"
    /\ ~task._should_stop
    /\ task' = [task EXCEPT !._should_stop = TRUE]
    /\ UNCHANGED <<output_model, pc, events, call, ret, config, prev, ncalls>>

\* _optimize raises: optimize ends with its exception
OptimizeRaise ==
    /\ pc = "in_optimize"
    /\ pc' = "idle"
    /\ ret' = [err |-> "NotImplementedError"]
    /\ UNCHANGED <<task, output_model, events, call, config, prev, ncalls>>

\* _optimize returns and optimize runs to its end
OptimizeReturn ==
    /\ pc = "in_optimize"
    /\ \E results \in TemporaryPaths, loads \in BOOLEAN, saves \in BOOLEAN :
        LET res == OptimizeLeave(task, output_model, results, loads, saves)
        IN  /\ task' = res.task
            /\ output_model' = res.model
            /\ events' = events \o res.events
            /\ ret' = [err |-> res.err, stopped |-> task._should_stop,
                       task |-> task, output_model |-> output_model]
    /\ pc' = "idle"
    /\ UNCHANGED <<call, config, prev, ncalls>>

NextTask ==
    \/ Construct /\ UNCHANGED <<mvars, pvars>>
    \/ OptimizeCall /\ UNCHANGED <<mvars, pvars>>
    \/ CancelTraining /\ UNCHANGED <<mvars, pvars>>
    \/ OptimizeRaise /\ UNCHANGED <<mvars, pvars>>
    \/ OptimizeReturn /\ UNCHANGED <<mvars, pvars>>

SpecTask == InitTask /\ [][NextTask]_vars

---------------------------------------------------------------------------
(* The training tool: main() of train.py *)

\* override_parameters(updated, hyper_parameters): every user-supplied value
\* replaces the value the schema holds for that parameter
RECURSIVE override_parameters(_, _)
override_parameters(updated, schema) ==
    IF updated = <<>> THEN schema
    ELSE override_parameters(Tail(updated),
                             SetItem(schema, Head(updated).key, Head(updated).value))

\* create(hyper_parameters): the configurable parameters built from the schema
create(schema) == [configurable_parameters |-> schema.map]

\* TaskEnvironment(model=None, hyper_parameters=..., ...)
TaskEnvironment(parameters, labels) ==
    [ model |-> None, hyper_parameters |-> parameters, label_schema |-> labels ]

\* if args.load_weights
LoadsWeights(args) == ~IsNone(args.load_weights)

\* the model that `if args.load_weights` attaches to the environment
LoadedModel(args) ==
    [ model_adapters |-> {"weights.pth"}, weights |-> args.load_weights ]

\* task_class(task_environment=environment): the task reads the
\* hyper-parameters and the model of the environment it is given
NewCliTask(env) == [ task_environment |-> env ]

\* ModelEntity(dataset, configuration, model_status=ModelStatus.NOT_READY)
NotReadyModel == [ model_status |-> "NOT_READY", data |-> {} ]

\* the weights file written whatever the status is
ShouldSave_Always(m) == TRUE

\* if output_model.model_status != ModelStatus.NOT_READY
ShouldSave(m) == m.model_status # "NOT_READY"

\* the template's hyper-parameter schema with its default values
TemplateDefaults ==
    Map(<<E(K("learning_rate"), Int_(1)), E(K("batch_size"), Int_(2))>>)
\* the values the user may give on the command line, per parameter
UserValues == {Int_(1), Int_(3)}
\* gen_params_dict_from_args(args): the parameters the user gave
UserParams ==
    { <<>> }
    \cup { <<E(K("learning_rate"), v)>> : v \in UserValues }
    \cup { <<E(K("batch_size"), v)>> : v \in UserValues }
    \cup { <<E(K("batch_size"), v), E(K("learning_rate"), w)>> :
             v \in UserValues, w \in UserValues }
\* --load-weights: absent or a path
LoadWeightsArgs == {None, Str("snapshot.pth")}
\* what task.train leaves in output_model.model_status
TrainedStatuses == {"NOT_READY", "SUCCESS"}

InitCli ==
    /\ NoConfig
    /\ NoPatches
    /\ hyper_parameters = TemplateDefaults
    /\ environment = None
    /\ task = None
    /\ output_model = None
    /\ pc = "override_parameters"
    /\ events = <<>>
    /\ \E updated \in UserParams, load_weights \in LoadWeightsArgs :
         call = [op |-> "main", updated |-> updated, load_weights |-> load_weights,
                 save_weights |-> "weights.pth"]
    /\ ret = [err |-> Ok, written |-> {}]

\* override_parameters(updated_hyper_parameters, hyper_parameters);
\* hyper_parameters = create(hyper_parameters)
CliOverride ==
    /\ pc = "override_parameters"
    /\ hyper_parameters' = create(override_parameters(call.updated, hyper_parameters))
    /\ events' = Append(events, "override_parameters")
    /\ pc' = "dataset"
    /\ UNCHANGED <<environment, task, output_model, call, ret>>

\* dataset = dataset_class(...); environment = TaskEnvironment(...)
CliBuild ==
    /\ pc = "dataset"
    /\ environment' = TaskEnvironment(hyper_parameters, "labels")
    /\ events' = events \o <<"dataset_class", "TaskEnvironment">>
    /\ pc' = "load_weights"
    /\ UNCHANGED <<hyper_parameters, task, output_model, call, ret>>

\* if args.load_weights: environment.model = ModelEntity(...)
CliLoadWeights ==
    /\ pc = "load_weights"
    /\ IF LoadsWeights(call)
       THEN /\ environment' = [environment EXCEPT !.model = LoadedModel(call)]
            /\ events' = Append(events, "load_model_weights")
       ELSE UNCHANGED <<environment, events>>
    /\ pc' = "task_class"
    /\ UNCHANGED <<hyper_parameters, task, output_model, call, ret>>

\* task = task_class(task_environment=environment);
\* output_model = ModelEntity(..., model_status=ModelStatus.NOT_READY)
CliConstruct ==
    /\ pc = "task_class"
    /\ task' = NewCliTask(environment)
    /\ output_model' = NotReadyModel
    /\ events' = Append(events, "task_class")
    /\ pc' = "train"
    /\ UNCHANGED <<hyper_parameters, environment, call, ret>>

\* task.train(dataset, output_model): it returns with the status it leaves
\* in output_model, or it raises
CliTrain ==
    /\ pc = "train"
    /\ events' = Append(events, "train")
    /\ \/ \E status \in TrainedStatuses :
            /\ output_model' =
                 [output_model EXCEPT
                    !.model_status = status,
                    !.data = IF status = "NOT_READY" THEN {} ELSE {"weights.pth"}]
            /\ pc' = "save_weights"
            /\ UNCHANGED ret
       \/ /\ pc' = "failed"
          /\ ret' = [ret EXCEPT !.err = "RuntimeError"]
          /\ UNCHANGED output_model
    /\ UNCHANGED <<hyper_parameters, environment, task, call>>

\* if output_model.model_status != ModelStatus.NOT_READY: write the file
CliSaveWeights ==
    /\ pc = "save_weights"
    /\ IF ShouldSave(output_model)
       THEN /\ ret' = [ret EXCEPT !.written = {call.save_weights}]
            /\ events' = Append(events, "write")
       ELSE UNCHANGED <<ret, events>>
    /\ pc' = "infer"
    /\ UNCHANGED <<hyper_parameters, environment, task, output_model, call>>

\* predicted_validation_dataset = task.infer(...)
CliInfer ==
    /\ pc = "infer"
    /\ events' = Append(events, "infer")
    /\ pc' = "evaluate"
    /\ UNCHANGED <<hyper_parameters, environment, task, output_model, call, ret>>

\* task.evaluate(resultset); assert resultset.performance is not None
CliEvaluate ==
    /\ pc = "evaluate"
    /\ events' = Append(events, "evaluate")
    /\ \E performance \in {None, Int_(1)} :
         IF IsNone(performance)
         THEN pc' = "failed" /\ ret' = [ret EXCEPT !.err = "AssertionError"]
         ELSE pc' = "done" /\ UNCHANGED ret
    /\ UNCHANGED <<hyper_parameters, environment, task, output_model, call>>

NextCli ==
    \/ CliOverride /\ UNCHANGED <<config, prev, ncalls, pvars>>
    \/ CliBuild /\ UNCHANGED <<config, prev, ncalls, pvars>>
    \/ CliLoadWeights /\ UNCHANGED <<config, prev, ncalls, pvars>>
    \/ CliConstruct /\ UNCHANGED <<config, prev, ncalls, pvars>>
    \/ CliTrain /\ UNCHANGED <<config, prev, ncalls, pvars>>
    \/ CliSaveWeights /\ UNCHANGED <<config, prev, ncalls, pvars>>
    \/ CliInfer /\ UNCHANGED <<config, prev, ncalls, pvars>>
    \/ CliEvaluate /\ UNCHANGED <<config, prev, ncalls, pvars>>

SpecCli == InitCli /\ [][NextCli]_vars

---------------------------------------------------------------------------
(* The NNCF patches modules: what their import installs *)

CommonPatches == "otx.algorithms.common.adapters.mmcv.nncf.patches"
SegPatches == "otx.algorithms.segmentation.adapters.mmseg.nncf.patches"
\* the methods the common patches module hands to NNCF_PATCHER.patch
EvaluateMethods ==
    { "mmcv.runner.EvalHook.evaluate",
      "mpa.modules.hooks.eval_hook.CustomEvalHook.evaluate" }
\* the class attributes the two modules assign or patch
ClassAttributes ==
    { "BaseSegmentor.nncf_trace_context", "NNCFNetwork.train_step",
      "mpa.modules.hooks.recording_forward_hooks.FeatureVectorHook.func",
      "mpa.modules.hooks.recording_forward_hooks.ActivationMapHook.func" }
    \cup EvaluateMethods

\* the classes as their libraries define them: methods without a wrapper,
\* BaseSegmentor without nncf_trace_context
OriginalClasses ==
    [a \in ClassAttributes |->
        IF a = "BaseSegmentor.nncf_trace_context" THEN None
        ELSE [fn |-> a, wrappers |-> <<>>]]

\* is_nncf_enabled(): the nncf package is there
is_nncf_enabled(mods) == "nncf" \in mods

\* NNCF_PATCHER.patch(target, wrapper): calls of target go through wrapper
Patch(cls, target, wrapper) ==
    [cls EXCEPT ![target].wrappers = <<wrapper>> \o @]

\* copy.deepcopy(value): an equal value that is a new object
deepcopy(object, fresh) == [id |-> fresh, items |-> object.items]

\* all_metrics copied before the wrapped function has run
evaluation_wrapper_Stale(before, after, out, fresh) ==
    [ out |-> out,
      runner |-> [after EXCEPT !.all_metrics = deepcopy(before.log_buffer_output, fresh)] ]

\* evaluation_wrapper(self, fn, runner, ...): before is the runner at the
\* call, after and out are the runner as fn left it and what fn returned
evaluation_wrapper(before, after, out, fresh) ==
    [ out |-> out,
      runner |-> [after EXCEPT !.all_metrics = deepcopy(after.log_buffer_output, fresh)] ]

\* the body of the common patches module
ImportCommon(mods, cls) ==
    LET stepped == IF is_nncf_enabled(mods)
                   THEN [cls EXCEPT !["NNCFNetwork.train_step"] =
                                       [fn |-> "nncf_train_step", wrappers |-> <<>>]]
                   ELSE cls
        evals == Patch(Patch(stepped, "mmcv.runner.EvalHook.evaluate", "evaluation_wrapper"),
                       "mpa.modules.hooks.eval_hook.CustomEvalHook.evaluate",
                       "evaluation_wrapper")
    IN  Patch(Patch(evals,
                    "mpa.modules.hooks.recording_forward_hooks.FeatureVectorHook.func",
                    "no_nncf_trace_wrapper"),
              "mpa.modules.hooks.recording_forward_hooks.ActivationMapHook.func",
              "no_nncf_trace_wrapper")

\* the body of the segmentation patches module, as far as its test shows it
ImportSeg(mods, cls) ==
    [cls EXCEPT !["BaseSegmentor.nncf_trace_context"] = Str("nncf_trace_context")]

\* evaluate calls in one behaviour
MaxEvaluate == 2
\* what an evaluation writes to runner.log_buffer.output
Metrics == {<<"mAP">>, <<"mAP", "loss">>}
\* what the wrapped evaluate returns
Scores == {None, Int_(1)}

InitPatches ==
    /\ NoConfig
    /\ NoCli
    /\ task = None
    /\ output_model = None
    /\ pc = "new"
    /\ events = <<>>
    /\ modules \in {{}, {"nncf"}}
    /\ classes = OriginalClasses
    /\ mmcv_runner = [log_buffer_output |-> [id |-> 0, items |-> <<>>], all_metrics |-> None]
    /\ call = [op |-> "none"]
    /\ ret = [out |-> None]

\* `import <module>`: the body of a module runs at its first import only
Import ==
    \E m \in {CommonPatches, SegPatches} :
        /\ modules' = modules \cup {m}
        /\ classes' = IF m \in modules THEN classes
                      ELSE IF m = CommonPatches THEN ImportCommon(modules, classes)
                      ELSE ImportSeg(modules, classes)
        /\ call' = [op |-> "import", module |-> m]
        /\ ret' = [out |-> None]
        /\ UNCHANGED <<mmcv_runner, ncalls>>

\* hook.evaluate(runner, results) of one of the two evaluation hooks: the
\* library's method writes the metrics to the log buffer and returns a
\* score; a patched method is entered through its wrapper
Evaluate ==
    /\ ncalls < MaxEvaluate
    /\ \E method \in EvaluateMethods, metrics \in Metrics, score \in Scores :
        LET after == [mmcv_runner EXCEPT !.log_buffer_output.items = metrics]
            wrapped == evaluation_wrapper(mmcv_runner, after, score, ncalls + 1)
        IN  /\ call' = [op |-> "evaluate", method |-> method, metrics |-> metrics,
                        score |-> score, patched |-> classes[method].wrappers # <<>>]
            /\ IF classes[method].wrappers # <<>>
               THEN mmcv_runner' = wrapped.runner /\ ret' = [out |-> wrapped.out]
               ELSE mmcv_runner' = after /\ ret' = [out |-> score]
    /\ ncalls' = ncalls + 1
    /\ UNCHANGED <<modules, classes>>

\* runner.log_buffer.clear_output(): the logger hook empties the dict the
\* log buffer holds; an all_metrics that is the same object empties with it
ClearOutput ==
    /\ mmcv_runner.log_buffer_output.items # <<>>
    /\ mmcv_runner' =
         [mmcv_runner EXCEPT
            !.log_buffer_output.items = <<>>,
            !.all_metrics = IF ~IsNone(@) /\ @.id = mmcv_runner.log_buffer_output.id
                            THEN [@ EXCEPT !.items = <<>>] ELSE @]
    /\ call' = [op |-> "clear_output"]
    /\ UNCHANGED <<modules, classes, ret, ncalls>>

NextPatches ==
    \/ Import /\ UNCHANGED <<config, prev, tvars, mvars>>
    \/ Evaluate /\ UNCHANGED <<config, prev, tvars, mvars>>
    \/ ClearOutput /\ UNCHANGED <<config, prev, tvars, mvars>>

SpecPatches == InitPatches /\ [][NextPatches]_vars

---------------------------------------------------------------------------
(* Reading a tree by paths *)

Range(seq) == {seq[i] : i \in 1..Len(seq)}
IsPrefix(p, q) == Len(p) <= Len(q) /\ SubSeq(q, 1, Len(p)) = p
IsProperPrefix(p, q) == Len(p) < Len(q) /\ SubSeq(q, 1, Len(p)) = p
Prefix(p, n) == SubSeq(p, 1, n)
Last(p) == p[Len(p)]

\* node has a child under key: a key of the mapping, an index 0..len-1 of
\* the sequence
HasChild(node, key) ==
    IF IsMapping(node) THEN Contains(node, key)
    ELSE IF IsSequence(node)
        THEN IsInt(key) /\ 0 <= key.i /\ key.i < Len(Items(node))
    ELSE FALSE
Child(node, key) ==
    IF IsMapping(node) THEN GetItem(node, key) ELSE Items(node)[key.i + 1]
\* position of the child among the children of node
ChildPos(node, key) == IF IsMapping(node) THEN PosOf(node, key) ELSE key.i + 1

\* following path from node reaches a node
RECURSIVE HasAt(_, _)
HasAt(node, path) ==
    \/ path = <<>>
    \/ HasChild(node, Head(path)) /\ HasAt(Child(node, Head(path)), Tail(path))
\* the node reached by following path from node
RECURSIVE NodeAt(_, _)
NodeAt(node, path) ==
    IF path = <<>> THEN node ELSE NodeAt(Child(node, Head(path)), Tail(path))

\* the paths of all nodes of the tree, the root's empty path included
RECURSIVE PathsOf(_)
PathsOf(node) ==
    {<<>>} \cup UNION { {<<c.key>> \o p : p \in PathsOf(c.value)} :
                        c \in Range(Children(node)) }

\* p comes before q in the depth-first pre-order of the tree: p is an
\* ancestor of q, or where they part p takes the earlier child
FirstDiff(p, q) == CHOOSE k \in 1..Len(p) : p[k] # q[k] /\ Prefix(p, k - 1) = Prefix(q, k - 1)
PreOrderBefore(tree, p, q) ==
    \/ IsProperPrefix(p, q)
    \/ /\ ~IsPrefix(p, q)
       /\ ~IsPrefix(q, p)
       /\ LET k == FirstDiff(p, q)
              parent == NodeAt(tree, Prefix(p, k - 1))
          IN  ChildPos(parent, p[k]) < ChildPos(parent, q[k])

IsUpdate == call.op = "update_config"
IsKeysQuery == call.op = "get_configs_by_keys"
IsDictQuery == call.op = "get_configs_by_dict"
\* the single (path, value) of the last update_config call
ThePath == call.updates[1].path
TheValue == call.updates[1].value

\* every node the walk along path steps through (the proper prefixes of
\* path that exist) is a mapping
MappingsAlong(tree, path) ==
    \A n \in 0..(Len(path) - 1) :
        HasAt(tree, Prefix(path, n)) => IsMapping(NodeAt(tree, Prefix(path, n)))

---------------------------------------------------------------------------
(* Dataset configs: get_dataset_configs, patch_color_conversion *)

\* A list of config nodes a function returns holds the objects themselves:
\* an entry [path, node] names the object by the path where it lives in the
\* tree it was taken from, so that a store through it is a store at path.

Bool(b) == [bool |-> b]

\* `x = value` followed by Rest, which reads x: value is computed once
Bind(value, Rest(_)) == CHOOSE result \in {Rest(x) : x \in {value}} : TRUE
\* bool(value)
Truthy(node) ==
    IF "bool" \in DOMAIN node THEN node.bool
    ELSE IF "int" \in DOMAIN node THEN node.int # 0
    ELSE IF IsStr(node) THEN node.str # ""
    ELSE IF IsNone(node) THEN FALSE
    ELSE IF "set" \in DOMAIN node THEN node.set # {}
    ELSE Children(node) # <<>>

\* the tree with the object at path set to node (path leads to a node)
RECURSIVE ReplaceAt(_, _, _)
ReplaceAt(tree, path, node) ==
    IF path = <<>> THEN node
    ELSE LET sub == ReplaceAt(Child(tree, Head(path)), Tail(path), node)
         IN  IF IsMapping(tree) THEN SetItem(tree, Head(path), sub)
             ELSE WithItems(tree, [Items(tree) EXCEPT ![Head(path).i + 1] = sub])

\* every found node appended, a list or tuple as one entry
Flatten_Append(out) == out

\* the loop over out.values() that ends both queries when return_path is
\* False: out_.extend(found) for a list or tuple, out_.append(found) otherwise
RECURSIVE Flatten(_)
Flatten(out) ==
    IF out = <<>> THEN <<>>
    ELSE LET found == Head(out)
             these == IF IsSequence(found.node)
                      THEN [i \in 1..Len(Items(found.node)) |->
                              [path |-> Append(found.path, Idx(i - 1)),
                               node |-> Items(found.node)[i]]]
                      ELSE <<found>>
         IN  these \o Flatten(Tail(out))

\* the found configs returned although the list is not empty
OrSubset_Both(data_cfgs, data_cfg) == Append(data_cfgs, data_cfg)

\* return data_cfgs if data_cfgs else [data_cfg]
OrSubset(data_cfgs, data_cfg) == IF data_cfgs # <<>> THEN data_cfgs ELSE <<data_cfg>>

\* get_dataset_configs(config, subset): the entries name the objects by
\* their paths in config
get_dataset_configs(cfg, subset) ==
    IF ~HasAttr(cfg, "data") THEN [out |-> <<>>, err |-> "AttributeError"]
    ELSE IF IsNone(GetOrNone(Attr(cfg, "data"), K(subset))) THEN [out |-> <<>>, err |-> Ok]
    ELSE LET at == <<K("data"), K(subset)>>
             data_cfg == GetItem(Attr(cfg, "data"), K(subset))
             found == Flatten(get_configs_by_keys(data_cfg,
                                                  List(<<K("dataset"), K("datasets")>>)))
             data_cfgs == [i \in 1..Len(found) |->
                             [path |-> at \o found[i].path, node |-> found[i].node]]
         IN  [out |-> OrSubset(data_cfgs, [path |-> at, node |-> data_cfg]), err |-> Ok]

\* to_rgb set whatever it was
ToggleRgb_Set(cfg) == SetAttr(cfg, "to_rgb", Bool(TRUE))

\* the body of the loop of patch_color_conversion
ToggleRgb(cfg) ==
    LET to_rgb == IF HasAttr(cfg, "to_rgb") THEN Attr(cfg, "to_rgb") ELSE Bool(FALSE)
    IN  SetAttr(cfg, "to_rgb", Bool(~Truthy(to_rgb)))

\* patch_color_conversion(config); `"data" in config` is key membership for
\* a mapping and element membership for a list or tuple; ToggleAll[i] is
\* data after i rounds of the for loop over the found nodes
patch_color_conversion(cfg) ==
    IF IsMapping(cfg) THEN
        IF ~HasAttr(cfg, "data") THEN [node |-> cfg, err |-> "AssertionError"]
        ELSE LET Found == Flatten(get_configs_by_dict(Attr(cfg, "data"),
                                                      <<E(K("type"), Str("Normalize"))>>))
                 Toggled(cfgs) ==
                     LET ToggleAll[i \in 0..Len(cfgs)] ==
                             IF i = 0 THEN Attr(cfg, "data")
                             ELSE Bind(ToggleAll[i - 1], LAMBDA data :
                                      ReplaceAt(data, cfgs[i].path,
                                                ToggleRgb(NodeAt(data, cfgs[i].path))))
                     IN  [node |-> SetAttr(cfg, "data", ToggleAll[Len(cfgs)]), err |-> Ok]
             IN  Bind(Found, Toggled)
    ELSE IF IsSequence(cfg) THEN
        IF \E i \in 1..Len(Items(cfg)) : Items(cfg)[i] = Str("data")
        THEN [node |-> cfg, err |-> "AttributeError"]
        ELSE [node |-> cfg, err |-> "AssertionError"]
    ELSE [node |-> cfg, err |-> "TypeError"]

---------------------------------------------------------------------------
(* The detection patch_config and patch_datasets *)

\* get_meta_keys(pipeline_step): meta_keys becomes a set
get_meta_keys(step) ==
    LET DEFAULT_META_KEYS ==
            { "filename", "ori_filename", "ori_shape", "img_shape", "pad_shape",
              "scale_factor", "flip", "flip_direction", "img_norm_cfg" }
        given == Attr(step, "meta_keys")
        meta_keys == IF ~HasAttr(step, "meta_keys") THEN DEFAULT_META_KEYS
                     ELSE IF "set" \in DOMAIN given THEN given.set
                     ELSE {Items(given)[i].str : i \in 1..Len(Items(given))}
    IN  SetAttr(step, "meta_keys", [set |-> meta_keys \cup {"ignored_labels"}])

HasType(node, type) == Attr(node, "type") = Str(type)

\* the body of the loop of update_pipeline for the step at position i of
\* cfg.pipeline: the three ifs, one after the other
PatchStep(cfg, i, subset, domain) ==
    LET step == Items(Attr(cfg, "pipeline"))[i]
        image == IF HasType(step, "LoadImageFromFile")
                 THEN SetAttr(step, "type", Str("LoadImageFromOTXDataset")) ELSE step
        loads == HasType(image, "LoadAnnotations")
        min_size == IF HasAttr(cfg, "min_size") THEN Attr(cfg, "min_size") ELSE Int_(-1)
        annotated == IF loads
                     THEN SetAttr(SetAttr(SetAttr(image, "type", Str("LoadAnnotationFromOTXDataset")),
                                          "domain", domain),
                                  "min_size", min_size)
                     ELSE image
        collected == IF subset = "train" /\ HasType(annotated, "Collect")
                     THEN get_meta_keys(annotated) ELSE annotated
        popped == IF loads THEN remove_from_config(cfg, "min_size") ELSE cfg
        pipeline == Attr(popped, "pipeline")
    IN  SetAttr(popped, "pipeline",
                WithItems(pipeline, [Items(pipeline) EXCEPT ![i] = collected]))

\* update_pipeline(cfg) of patch_datasets: the loop over cfg.pipeline, then
\* patch_color_conversion(cfg.pipeline)
update_pipeline(cfg, subset, domain) ==
    IF ~HasAttr(cfg, "pipeline") THEN [node |-> cfg, err |-> "AttributeError"]
    ELSE LET PatchSteps[i \in 0..Len(Items(Attr(cfg, "pipeline")))] ==
                 IF i = 0 THEN cfg
                 ELSE Bind(PatchSteps[i - 1], LAMBDA c : PatchStep(c, i, subset, domain))
             Colour(stepped) ==
                 Bind(patch_color_conversion(Attr(stepped, "pipeline")),
                      LAMBDA colour : [node |-> SetAttr(stepped, "pipeline", colour.node),
                                       err |-> colour.err])
         IN  Bind(PatchSteps[Len(Items(Attr(cfg, "pipeline")))], Colour)

\* the body of `for cfg in cfgs` of patch_datasets
PatchDatasetCfg(cfg, subset, domain) ==
    LET typed == SetAttr(SetAttr(SetAttr(SetAttr(cfg, "type", Str("MPADetDataset")),
                                         "domain", domain),
                                 "otx_dataset", None),
                         "labels", None)
        removed == remove_from_config(remove_from_config(remove_from_config(
                       typed, "ann_file"), "img_prefix"), "classes")
    IN  update_pipeline(removed, subset, domain)

\* patch_datasets(config, domain).  PatchDatasetCfgs is `for cfg in cfgs`,
\* PatchSubset the body of `for subset in ("train", "val", "test")`, each as
\* the config and the outcome after i rounds; the first error ends the call
patch_datasets(cfg, domain) ==
    LET subsets == <<"train", "val", "test">>
        Written(c, path, one) == [node |-> ReplaceAt(c, path, one.node), err |-> one.err]
        PatchDatasetCfgs(c, cfgs, subset) ==
            LET Loop[i \in 0..Len(cfgs)] ==
                    IF i = 0 THEN [node |-> c, err |-> Ok]
                    ELSE Bind(Loop[i - 1], LAMBDA before :
                             IF before.err # Ok THEN before
                             ELSE Bind(PatchDatasetCfg(NodeAt(before.node, cfgs[i].path),
                                                       subset, domain),
                                       LAMBDA one : Written(before.node, cfgs[i].path, one)))
            IN  Loop[Len(cfgs)]
        \* if len(cfgs) and config.data[subset].type == "MultiImageMixDataset"
        Mix(c, subset, at) ==
            IF ~HasAttr(NodeAt(c, at), "type") THEN [node |-> c, err |-> "AttributeError"]
            ELSE IF ~HasType(NodeAt(c, at), "MultiImageMixDataset") THEN [node |-> c, err |-> Ok]
            ELSE Bind(update_pipeline(NodeAt(c, at), subset, domain),
                      LAMBDA mix : Written(c, at, mix))
        AndMix(patched, cfgs, subset) ==
            IF patched.err # Ok \/ cfgs = <<>> THEN patched
            ELSE Mix(patched.node, subset, <<K("data"), K(subset)>>)
        CfgsOf(c, cfgs, subset) ==
            Bind(PatchDatasetCfgs(c, cfgs, subset), LAMBDA patched : AndMix(patched, cfgs, subset))
        PatchSubset(c, subset) ==
            Bind(get_dataset_configs(c, subset).out, LAMBDA cfgs : CfgsOf(c, cfgs, subset))
        PatchSubsets[i \in 0..Len(subsets)] ==
            IF i = 0 THEN [node |-> cfg, err |-> Ok]
            ELSE Bind(PatchSubsets[i - 1], LAMBDA before :
                     IF before.err # Ok THEN before ELSE PatchSubset(before.node, subsets[i]))
    IN  IF ~HasAttr(cfg, "data") THEN [node |-> cfg, err |-> "AssertionError"]
        ELSE PatchSubsets[Len(subsets)]

\* a hook appended whatever custom_hooks holds
AddCancelHook_Always(cfg) ==
    LET hooks == IF HasAttr(cfg, "custom_hooks") THEN Attr(cfg, "custom_hooks") ELSE List(<<>>)
    IN  [node |-> SetAttr(cfg, "custom_hooks",
                          List(Append(hooks.list, Map(<<E(K("type"), Str("CancelTrainingHook"))>>)))),
         err |-> Ok]

\* "Add training cancelation hook" of patch_config; a tuple has no append
AddCancelHook(cfg) ==
    LET hooks == IF HasAttr(cfg, "custom_hooks") THEN Attr(cfg, "custom_hooks") ELSE List(<<>>)
        created == SetAttr(cfg, "custom_hooks", hooks)
        types == {Attr(Items(hooks)[i], "type") : i \in 1..Len(Items(hooks))}
    IN  IF Str("CancelTrainingHook") \in types THEN [node |-> created, err |-> Ok]
        ELSE IF IsTuple(hooks) THEN [node |-> created, err |-> "AttributeError"]
        ELSE [node |-> SetAttr(created, "custom_hooks",
                               List(Append(hooks.list,
                                           Map(<<E(K("type"), Str("CancelTrainingHook"))>>)))),
              err |-> Ok]

\* set_data_classes(config, labels): cfg.labels = labels for every dataset
\* config of the three subsets
set_data_classes(cfg, labels) ==
    LET subsets == <<"train", "val", "test">>
        SetLabels(c, cfgs) ==
            LET Loop[i \in 0..Len(cfgs)] ==
                    IF i = 0 THEN c
                    ELSE Bind(Loop[i - 1], LAMBDA before :
                             ReplaceAt(before, cfgs[i].path,
                                       SetAttr(NodeAt(before, cfgs[i].path), "labels", labels)))
            IN  Loop[Len(cfgs)]
        SetSubsets[i \in 0..Len(subsets)] ==
            IF i = 0 THEN cfg
            ELSE Bind(SetSubsets[i - 1], LAMBDA before :
                     Bind(get_dataset_configs(before, subsets[i]).out,
                          LAMBDA cfgs : SetLabels(before, cfgs)))
    IN  IF ~HasAttr(cfg, "data") THEN [node |-> cfg, err |-> "AttributeError"]
        ELSE [node |-> SetSubsets[Len(subsets)], err |-> Ok]

\* patch_config(config, work_dir, labels, domain); cuda is what
\* torch.cuda.is_available() answers.  The statements in the order of the
\* code, each applied to the config the one before it left; an error ends
\* the call with the config as it is then.
patch_config(cfg, work_dir, labels, domain, cuda) ==
    LET Then(res, Rest(_)) ==
            Bind(res, LAMBDA r : IF r.err # Ok THEN [node |-> r.node, err |-> r.err]
                                 ELSE Rest(r.node))
        Default(c, name) == IF HasAttr(c, name) THEN c ELSE SetAttr(c, name, ConfigDict)
        \* remove_from_config(config, "train_pipeline"), (config, "test_pipeline")
        Pipelines(c) == remove_from_config(remove_from_config(c, "train_pipeline"),
                                           "test_pipeline")
        \* Remove FP16 config if running on CPU device
        Fp16(c) == IF ~cuda /\ HasAttr(c, "fp16") THEN remove_from_config(c, "fp16") ELSE c
        \* evaluation_metric = config.evaluation.get("metric")
        SaveBest(c) ==
            LET evaluation_metric == GetOrNone(Attr(c, "evaluation"), K("metric"))
            IN  IF IsNone(evaluation_metric) THEN c
                ELSE SetAttr(c, "evaluation",
                             SetAttr(Attr(c, "evaluation"), "save_best", evaluation_metric))
        \* config.checkpoint_config.max_keep_ckpts = 5; .interval = ...
        Checkpoints(c) ==
            LET interval == IF HasAttr(Attr(c, "evaluation"), "interval")
                            THEN Attr(Attr(c, "evaluation"), "interval") ELSE Int_(1)
            IN  SetAttr(c, "checkpoint_config",
                        SetAttr(SetAttr(Attr(c, "checkpoint_config"), "max_keep_ckpts", Int_(5)),
                                "interval", interval))
        \* config.gpu_ids = range(1); config.work_dir = work_dir
        Last_(c) == [node |-> SetAttr(SetAttr(c, "gpu_ids", [range |-> 1]), "work_dir", work_dir),
                     err |-> Ok]
        Defaults(c) ==
            Bind(Default(Default(Fp16(c), "log_config"), "evaluation"),
                 LAMBDA evaluated : Bind(Default(SaveBest(evaluated), "checkpoint_config"),
                                         Checkpoints))
        AfterDatasets(c) == Then(set_data_classes(Defaults(c), labels), Last_)
        AfterHooks(c) == Then(patch_datasets(Pipelines(c), domain), AfterDatasets)
        AfterRunner(c) == Then(AddCancelHook(c), AfterHooks)
    IN  Then(patch_config_runner(cfg), AfterRunner)

---------------------------------------------------------------------------
(* Configs with a data section, and the calls on them *)

\* calls of one behaviour that change the config
MaxDataCalls == 2

\* detection configs: the top-level keys before data, and the data section
\* with what follows it
DataSeeds ==
    LET T(type) == E(K("type"), Str(type))
        image == Map(<<T("LoadImageFromFile")>>)
        annotations == Map(<<T("LoadAnnotations"), E(K("with_bbox"), Bool(TRUE))>>)
        normalize == Map(<<T("Normalize"), E(K("to_rgb"), Bool(TRUE))>>)
        bgr == Map(<<T("Normalize"), E(K("mean"), Int_(0)), E(K("to_rgb"), Bool(FALSE))>>)
        plain == Map(<<T("Normalize"), E(K("mean"), Int_(0))>>)
        collect == Map(<<T("Collect"), E(K("meta_keys"), List(<<Str("filename")>>))>>)
        aug == Map(<<T("MultiScaleFlipAug"), E(K("transforms"), List(<<plain, collect>>))>>)
        coco(pipeline) ==
            Map(<<T("CocoDataset"), E(K("ann_file"), Str("a.json")),
                  E(K("min_size"), Int_(20)), E(K("pipeline"), pipeline)>>)
        voc(pipeline) ==
            Map(<<T("VOCDataset"), E(K("classes"), Tuple(<<Str("cat")>>)),
                  E(K("img_prefix"), Str("img")), E(K("pipeline"), pipeline)>>)
        training == List(<<image, annotations, normalize, collect>>)
        testing == List(<<image, aug>>)
        runners ==
            { <<>>,
              <<E(K("total_epochs"), Int_(1))>>,
              <<E(K("runner"), Map(<<T("IterBasedRunner")>>))>>,
              <<E(K("total_epochs"), Int_(2)),
                E(K("runner"), Map(<<T("EpochBasedRunner"), E(K("max_epochs"), Int_(1))>>))>> }
        hooks ==
            { <<>>,
              <<E(K("custom_hooks"), List(<<Map(<<T("EMAHook")>>)>>))>>,
              <<E(K("custom_hooks"),
                  List(<<Map(<<T("EMAHook")>>), Map(<<T("CancelTrainingHook")>>),
                         Map(<<T("LazyEarlyStoppingHook")>>)>>))>> }
        datas ==
            { <<>>,
              <<E(K("data"), Map(<<E(K("samples_per_gpu"), Int_(2)), E(K("train"), None)>>)),
                E(K("train_pipeline"), training), E(K("fp16"), Map(<<>>)),
                E(K("evaluation"), Map(<<E(K("metric"), Str("mAP")), E(K("interval"), Int_(2))>>))>>,
              <<E(K("data"),
                  Map(<<E(K("train"), Map(<<T("RepeatDataset"), E(K("dataset"), coco(training))>>)),
                        E(K("val"), voc(testing)),
                        E(K("test"), coco(List(<<image, bgr>>)))>>))>>,
              <<E(K("data"),
                  Map(<<E(K("train"), Map(<<T("ConcatDataset"),
                                            E(K("datasets"), List(<<coco(training), voc(training)>>))>>)),
                        E(K("val"), Map(<<T("ConcatDataset"), E(K("datasets"), List(<<>>))>>)),
                        E(K("test"), voc(Tuple(<<>>)))>>))>>,
              <<E(K("data"),
                  Map(<<E(K("train"), Map(<<T("MultiImageMixDataset"),
                                            E(K("dataset"), coco(List(<<image, annotations>>))),
                                            E(K("pipeline"), List(<<bgr, collect>>))>>)),
                        E(K("val"), coco(testing))>>))>> }
    IN  { Map(r \o h \o d \o <<E(K("work_dir"), Str("w"))>>) :
            r \in runners, h \in hooks, d \in datas }

Domains == {Str("DETECTION"), Str("INSTANCE_SEGMENTATION")}
Subsets == {"train", "val", "test", "unlabeled"}

InitData ==
    /\ NoTask
    /\ config \in DataSeeds
    /\ prev = config
    /\ call = [op |-> "none"]
    /\ ret = [err |-> Ok]
    /\ ncalls = 0

\* patch_config(config, work_dir, labels, domain)
PatchConfig ==
    /\ ncalls < MaxDataCalls
    /\ \E domain \in Domains, cuda \in BOOLEAN :
        \E res \in {patch_config(config, Str("out"), List(<<Str("cat")>>), domain, cuda)} :
            /\ config' = res.node
            /\ prev' = config
            /\ call' = [op |-> "patch_config", domain |-> domain, cuda |-> cuda]
            /\ ret' = [err |-> res.err]
            /\ ncalls' = ncalls + 1

\* patch_datasets(config, domain)
PatchDatasets ==
    /\ ncalls < MaxDataCalls
    /\ \E domain \in Domains :
        \E res \in {patch_datasets(config, domain)} :
            /\ config' = res.node
            /\ prev' = config
            /\ call' = [op |-> "patch_datasets", domain |-> domain]
            /\ ret' = [err |-> res.err]
            /\ ncalls' = ncalls + 1

\* patch_color_conversion(config)
PatchColorConversion ==
    /\ ncalls < MaxDataCalls
    /\ \E res \in {patch_color_conversion(config)} :
           /\ config' = res.node
           /\ prev' = config
           /\ call' = [op |-> "patch_color_conversion"]
           /\ ret' = [err |-> res.err]
           /\ ncalls' = ncalls + 1

\* get_dataset_configs(config, subset)
GetDatasetConfigs ==
    \E subset \in Subsets :
        \E res \in {get_dataset_configs(config, subset)} :
            /\ call' = [op |-> "get_dataset_configs", subset |-> subset]
            /\ ret' = [err |-> res.err, out |-> res.out]
            /\ prev' = config
            /\ UNCHANGED <<config, ncalls>>

NextData ==
    \/ PatchConfig /\ UNCHANGED <<tvars, mvars, pvars>>
    \/ PatchDatasets /\ UNCHANGED <<tvars, mvars, pvars>>
    \/ PatchColorConversion /\ UNCHANGED <<tvars, mvars, pvars>>
    \/ GetDatasetConfigs /\ UNCHANGED <<tvars, mvars, pvars>>

SpecData == InitData /\ [][NextData]_vars

---------------------------------------------------------------------------
(* Queries that return lists, and a query written back                     *)

\* found = get_configs_by_keys(config, keys, return_path=True);
\* update_config(config, found), as prepare_for_training does with the
\* data config and the recipe config, here on one config; the items of the
\* dict found are the updates
WriteBack ==
    \E keys \in KeysArgs :
        \E found \in {get_configs_by_keys(config, keys)} :
            \E res \in {update_config(config, [i \in 1..Len(found) |->
                                  [path |-> found[i].path, value |-> found[i].node]])} :
                /\ config' = res.node
                /\ prev' = config
                /\ call' = [op |-> "write_back", keys |-> keys, found |-> found]
                /\ ret' = [err |-> res.err]
                /\ UNCHANGED ncalls

\* get_configs_by_keys(config, keys): return_path is False
GetConfigsByKeysList ==
    \E keys \in KeysArgs :
        /\ call' = [op |-> "get_configs_by_keys", keys |-> keys, return_path |-> FALSE]
        /\ ret' = [out |-> Flatten(get_configs_by_keys(config, keys))]
        /\ prev' = config
        /\ UNCHANGED <<config, ncalls>>

\* get_configs_by_dict(config, pairs): return_path is False
GetConfigsByDictList ==
    \E pairs \in PairsArgs :
        /\ call' = [op |-> "get_configs_by_dict", pairs |-> pairs, return_path |-> FALSE]
        /\ ret' = [out |-> Flatten(get_configs_by_dict(config, pairs))]
        /\ prev' = config
        /\ UNCHANGED <<config, ncalls>>

\* update_config(config, {path: value, other: value}): two items, written
\* in the order of the dict
UpdateConfigBoth ==
    /\ ncalls < MaxCalls
    /\ \E path \in Paths, other \in Paths, value \in Values :
        \E updates \in {<<[path |-> path, value |-> value], [path |-> other, value |-> value]>>} :
            \E res \in {update_config(config, updates)} :
                /\ path # other
                /\ config' = res.node
                /\ prev' = config
                /\ call' = [op |-> "update_config", updates |-> updates]
                /\ ret' = [err |-> res.err]
                /\ ncalls' = ncalls + 1

\* the config is a seed or a seed after one call of update_config; then it
\* is queried
NextQuery ==
    \/ call.op = "none" /\ UpdateConfig /\ UNCHANGED <<tvars, mvars, pvars>>
    \/ call.op = "none" /\ UpdateConfigBoth /\ UNCHANGED <<tvars, mvars, pvars>>
    \/ WriteBack /\ UNCHANGED <<tvars, mvars, pvars>>
    \/ GetConfigsByKeysList /\ UNCHANGED <<tvars, mvars, pvars>>
    \/ GetConfigsByDictList /\ UNCHANGED <<tvars, mvars, pvars>>

SpecQuery == InitConfig /\ [][NextQuery]_vars

---------------------------------------------------------------------------
(* align_data_config_with_recipe *)

\* align_data_config_with_recipe(data_config, config).  AlignKey is the body
\* of `for key in list(subset_config.keys())`: the key is looked up in the
\* recipe's subset, popped from subset_config and written at the path found.
\* AlignKeys[i] is the subset config and the outcome after i keys of the
\* list taken before the loop, AlignSubsets[i] data_config.data after i
\* subsets; the first error ends the call
align_data_config_with_recipe(data_config, cfg) ==
    LET subsets == Attr(data_config, "data").map
        AlignKey(subset_config, recipe_subset, key) ==
            Bind(get_configs_by_keys(recipe_subset, key), LAMBDA found_config :
                IF Len(found_config) # 1
                THEN [node |-> subset_config, err |-> "AssertionError"]
                ELSE update_config(DelItem(subset_config, key),
                                   <<[path |-> found_config[1].path,
                                      value |-> GetItem(subset_config, key)]>>))
        AlignSubset(data, subset) ==
            LET subset_config == GetItem(data, subset)
                keys == IF IsMapping(subset_config) THEN subset_config.map ELSE <<>>
                AlignKeys[i \in 0..Len(keys)] ==
                    IF i = 0 THEN [node |-> subset_config, err |-> Ok]
                    ELSE Bind(AlignKeys[i - 1], LAMBDA before :
                             IF before.err # Ok THEN before
                             ELSE AlignKey(before.node, GetOrNone(Attr(cfg, "data"), subset),
                                           keys[i].key))
            IN  IF ~IsMapping(subset_config) THEN [node |-> data, err |-> "AttributeError"]
                ELSE Bind(AlignKeys[Len(keys)], LAMBDA aligned :
                         [node |-> SetItem(data, subset, aligned.node), err |-> aligned.err])
        AlignSubsets[i \in 0..Len(subsets)] ==
            IF i = 0 THEN [node |-> Attr(data_config, "data"), err |-> Ok]
            ELSE Bind(AlignSubsets[i - 1], LAMBDA before :
                     IF before.err # Ok THEN before
                     ELSE AlignSubset(before.node, subsets[i].key))
    IN  Bind(AlignSubsets[Len(subsets)], LAMBDA aligned :
            [node |-> SetAttr(data_config, "data", aligned.node), err |-> aligned.err])

\* data configs as the tasks build them, subset by subset, and recipes:
\* flat, with a wrapped train dataset, with one and with two concatenated
AlignInputs ==
    LET T(type) == E(K("type"), Str(type))
        dataset == E(K("otx_dataset"), Str("items"))
        labels == E(K("labels"), List(<<Str("cat")>>))
        flat == Map(<<T("CocoDataset"), E(K("otx_dataset"), None), E(K("labels"), None)>>)
        trains ==
            { <<>>,
              <<E(K("train"), Map(<<dataset, labels>>))>>,
              <<E(K("train"), Map(<<labels, E(K("dataset"), Map(<<E(K("pipeline"), List(<<>>))>>))>>))>>,
              <<E(K("train"), Map(<<E(K("datasets"), List(<<Map(<<>>)>>)), dataset>>))>>,
              <<E(K("train"), Map(<<dataset, E(K("dataset"), Str("coco"))>>))>> }
        vals ==
            { <<>>,
              <<E(K("val"), Map(<<dataset, labels>>))>>,
              <<E(K("val"), None)>>,
              <<E(K("val"), Map(<<dataset, E(K("data_classes"), List(<<Str("cat")>>))>>))>> }
        tests == { <<>>, <<E(K("test"), Map(<<dataset>>))>> }
        Recipe(train, rest) == Map(<<E(K("data"), Map(<<E(K("train"), train)>> \o rest))>>)
        both == <<E(K("val"), flat), E(K("test"), flat)>>
    IN  [data_configs |-> {Map(<<E(K("data"), Map(t \o v \o x))>>) :
                             t \in trains, v \in vals, x \in tests},
         recipes |-> { Recipe(flat, both),
                       Recipe(Map(<<T("RepeatDataset"), E(K("dataset"), flat)>>), both),
                       Recipe(Map(<<T("ConcatDataset"), E(K("datasets"), List(<<flat>>))>>),
                              <<E(K("val"), flat)>>),
                       Recipe(Map(<<T("ConcatDataset"), E(K("datasets"), List(<<flat, flat>>))>>),
                              both) }]

InitAlign ==
    /\ NoTask
    /\ config \in AlignInputs.data_configs
    /\ prev = config
    /\ call = [op |-> "none"]
    /\ ret = [err |-> Ok]
    /\ ncalls = 0

\* align_data_config_with_recipe(data_config, recipe): config is the data
\* config, which the call changes in place
AlignDataConfigWithRecipe ==
    /\ ncalls < MaxDataCalls
    /\ \E recipe \in AlignInputs.recipes :
        \E res \in {align_data_config_with_recipe(config, recipe)} :
            /\ config' = res.node
            /\ prev' = config
            /\ call' = [op |-> "align_data_config_with_recipe", recipe |-> recipe]
            /\ ret' = [err |-> res.err]
            /\ ncalls' = ncalls + 1

NextAlign == AlignDataConfigWithRecipe /\ UNCHANGED <<tvars, mvars, pvars>>

SpecAlign == InitAlign /\ [][NextAlign]_vars

---------------------------------------------------------------------------
(* C1 *)

\* C1: for a non-empty path whose existing nodes along the way are mappings,
\* update_config(config, {path: value}) returns normally, following path from
\* the root then yields exactly value, and every intermediate key that was
\* absent now holds a mapping created empty (it holds the next key of the
\* path and nothing else).
C1_UpdateSetsValue ==
    (IsUpdate /\ ThePath # <<>> /\ MappingsAlong(prev, ThePath)) =>
        /\ ret.err = Ok
        /\ HasAt(config, ThePath)
        /\ NodeAt(config, ThePath) = TheValue
        /\ \A n \in 1..(Len(ThePath) - 1) :
             ~HasAt(prev, Prefix(ThePath, n)) =>
                LET made == NodeAt(config, Prefix(ThePath, n))
                IN  /\ IsMapping(made)
                    /\ Len(made.map) = 1
                    /\ made.map[1].key = ThePath[n + 1]

\* an update through an absent intermediate key of an existing non-empty config
C1_Witness ==
    /\ IsUpdate
    /\ Len(ThePath) = 2
    /\ MappingsAlong(prev, ThePath)
    /\ prev # ConfigDict
    /\ ~HasAt(prev, Prefix(ThePath, 1))
    /\ ret.err = Ok
    /\ NodeAt(config, ThePath) = TheValue

---------------------------------------------------------------------------
(* C2 *)

\* the last update_config call walked through mappings down to a sequence
\* node and addressed it with the last key of its path
LastStepOnSequence ==
    /\ IsUpdate
    /\ ThePath # <<>>
    /\ MappingsAlong(prev, Prefix(ThePath, Len(ThePath) - 1))
    /\ HasAt(prev, Prefix(ThePath, Len(ThePath) - 1))
    /\ IsSequence(NodeAt(prev, Prefix(ThePath, Len(ThePath) - 1)))
TheSequence == NodeAt(prev, Prefix(ThePath, Len(ThePath) - 1))
InBounds(key, seq) == IsInt(key) /\ 0 <= key.i /\ key.i < Len(Items(seq))

\* C2 (the claim as stated): a step that addresses a sequence is accepted
\* exactly when its key is an integer index inside the bounds: with such a
\* key no assertion fails, the element of a list at that index is replaced
\* and the list keeps its length; any other key fails an assertion.
C2_SequenceIndexChecked ==
    LastStepOnSequence =>
        IF InBounds(Last(ThePath), TheSequence)
        THEN /\ ret.err # "AssertionError"
             /\ IsList(TheSequence) =>
                  /\ ret.err = Ok
                  /\ NodeAt(config, ThePath) = TheValue
                  /\ Len(Items(NodeAt(config, Prefix(ThePath, Len(ThePath) - 1))))
                       = Len(Items(TheSequence))
        ELSE ret.err = "AssertionError"

---------------------------------------------------------------------------
(* C3 *)

\* the keys of a keys argument, a bare key standing for itself
KeySetOf(keys) == IF "list" \in DOMAIN keys THEN Range(keys.list) ELSE {keys}

\* the paths the claim says get_configs_by_keys returns
OutermostKeyPaths(tree, keys) ==
    { p \in PathsOf(tree) :
        /\ p # <<>>
        /\ Last(p) \in KeySetOf(keys)
        /\ \A n \in 1..(Len(p) - 1) : p[n] \notin KeySetOf(keys) }

NoDuplicatePaths(out) ==
    \A i, j \in 1..Len(out) : out[i].path = out[j].path => i = j

\* C3: get_configs_by_keys(config, keys, return_path=True) returns exactly
\* the entries (path, node) with a non-empty path whose last element is in
\* keys and none of whose earlier elements is in keys; node is the value at
\* path; a bare key counts as the list of that key.
C3_KeysQueryOutermost ==
    IsKeysQuery =>
        /\ NoDuplicatePaths(ret.out)
        /\ Range(ret.out) =
             { [path |-> p, node |-> NodeAt(config, p)] :
                 p \in OutermostKeyPaths(config, call.keys) }

\* a query that returns a node reached through a sequence, leaves out a
\* deeper match inside a returned node, and one that matches an index
C3_Witness ==
    /\ IsKeysQuery
    /\ \E i \in 1..Len(ret.out) :
         /\ Len(ret.out[i].path) >= 3
         /\ \E k \in 1..Len(ret.out[i].path) : IsInt(ret.out[i].path[k])
    /\ \E i \in 1..Len(ret.out) :
         \E q \in PathsOf(ret.out[i].node) :
            q # <<>> /\ Last(q) \in KeySetOf(call.keys)

---------------------------------------------------------------------------
(* C4 *)

\* node holds every key of pairs with the given value
HoldsPairs(node, pairs) ==
    /\ IsMapping(node)
    /\ \A i \in 1..Len(pairs) :
         /\ Contains(node, pairs[i].key)
         /\ GetItem(node, pairs[i].key) = pairs[i].value

NoNoneValue(pairs) == \A i \in 1..Len(pairs) : ~IsNone(pairs[i].value)

OutermostPairPaths(tree, pairs) ==
    { p \in PathsOf(tree) :
        /\ HoldsPairs(NodeAt(tree, p), pairs)
        /\ \A n \in 0..(Len(p) - 1) : ~HoldsPairs(NodeAt(tree, Prefix(p, n)), pairs) }

\* C4: for pairs without a None value, get_configs_by_dict(config, pairs,
\* return_path=True) returns exactly the entries (path, node) where node is
\* a mapping holding every pair and no proper ancestor is such a mapping;
\* with empty pairs or a matching root that is the one entry of the empty
\* path.
C4_DictQueryOutermost ==
    (IsDictQuery /\ NoNoneValue(call.pairs)) =>
        /\ NoDuplicatePaths(ret.out)
        /\ Range(ret.out) =
             { [path |-> p, node |-> NodeAt(config, p)] :
                 p \in OutermostPairPaths(config, call.pairs) }
        /\ \A i \in 1..Len(ret.out) : IsMapping(ret.out[i].node)
        /\ (call.pairs = <<>> \/ HoldsPairs(config, call.pairs)) =>
              ret.out = <<[path |-> <<>>, node |-> config]>>

\* a query with pairs that returns a mapping inside a sequence and passes
\* over a mapping that holds only one of two pairs
C4_Witness ==
    /\ IsDictQuery
    /\ NoNoneValue(call.pairs)
    /\ \E i \in 1..Len(ret.out) :
         \E k \in 1..Len(ret.out[i].path) : IsInt(ret.out[i].path[k])
    /\ \E p \in PathsOf(config) :
         /\ IsMapping(NodeAt(config, p))
         /\ ~HoldsPairs(NodeAt(config, p), call.pairs)
         /\ \E i \in 1..Len(call.pairs) :
               HoldsPairs(NodeAt(config, p), <<call.pairs[i]>>)

---------------------------------------------------------------------------
(* C5 *)

\* C5: the entries a tree query returns are in the depth-first pre-order of
\* the config tree, mappings visited in insertion order and sequences in
\* index order.
C5_QueryPreOrder ==
    (IsKeysQuery \/ IsDictQuery) =>
        \A i, j \in 1..Len(ret.out) :
            i < j => PreOrderBefore(config, ret.out[i].path, ret.out[j].path)

\* a query whose entries part at a mapping and one whose entries part at a
\* sequence
C5_Witness ==
    /\ IsKeysQuery \/ IsDictQuery
    /\ Len(ret.out) >= 3
    /\ \E i, j \in 1..Len(ret.out) :
         /\ i < j
         /\ ~IsInt(ret.out[i].path[FirstDiff(ret.out[i].path, ret.out[j].path)])
    /\ \E i, j \in 1..Len(ret.out) :
         /\ i < j
         /\ IsInt(ret.out[i].path[FirstDiff(ret.out[i].path, ret.out[j].path)])

---------------------------------------------------------------------------
(* C6 *)

Related(p, q) == IsPrefix(p, q) \/ IsPrefix(q, p)
KeySeq(m) == [i \in 1..Len(m.map) |-> m.map[i].key]

\* C6: after update_config(config, {path: value}) every entry whose path
\* neither is a prefix of path nor extends it has its previous value; every
\* mapping the walk passed keeps its previous keys in their order, a created
\* key coming last; no sequence outside the replaced entry changes length.
C6_UpdateIsLocal ==
    IsUpdate =>
        /\ \A q \in PathsOf(prev) :
             ~Related(q, ThePath) =>
                HasAt(config, q) /\ NodeAt(config, q) = NodeAt(prev, q)
        /\ \A q \in PathsOf(prev) :
             (IsProperPrefix(q, ThePath) /\ IsMapping(NodeAt(prev, q))) =>
                /\ HasAt(config, q)
                /\ IsMapping(NodeAt(config, q))
                /\ LET old == KeySeq(NodeAt(prev, q))
                       new == KeySeq(NodeAt(config, q))
                   IN  \/ new = old
                       \/ /\ new = Append(old, ThePath[Len(q) + 1])
                          /\ ThePath[Len(q) + 1] \notin Range(old)
        /\ \A q \in PathsOf(prev) :
             (IsSequence(NodeAt(prev, q)) /\ ~IsPrefix(ThePath, q)) =>
                /\ HasAt(config, q)
                /\ IsSequence(NodeAt(config, q))
                /\ Len(Items(NodeAt(config, q))) = Len(Items(NodeAt(prev, q)))

\* an update that overwrites the first key of a two-key mapping below the
\* root, beside a sequence
C6_Witness ==
    /\ IsUpdate
    /\ ret.err = Ok
    /\ Len(ThePath) = 2
    /\ HasAt(prev, ThePath)
    /\ NodeAt(prev, ThePath) # TheValue
    /\ LET parent == NodeAt(prev, Prefix(ThePath, 1))
       IN  Len(parent.map) = 2 /\ parent.map[1].key = Last(ThePath)
    /\ \E q \in PathsOf(prev) : ~Related(q, ThePath) /\ IsSequence(NodeAt(prev, q))

---------------------------------------------------------------------------
(* C7 *)

IsPatch == call.op \in {"patch_runner", "patch_config"}
\* the call had a runner to work on: patch_config creates one when needed
HadRunner == call.op = "patch_config" \/ HasAttr(prev, "runner")

\* C7 (the claim as stated): for a config with a runner and a top-level
\* total_epochs, patch_runner and the runner part of patch_config end without
\* error, total_epochs is no longer in config, and an epoch based runner has
\* max_epochs equal to the former total_epochs; a differing previous
\* max_epochs gives the warning only.
C7_EpochsMovedIntoRunner ==
    (IsPatch /\ HadRunner /\ HasAttr(prev, "total_epochs")) =>
        /\ ret.err = Ok
        /\ ~HasAttr(config, "total_epochs")
        /\ is_epoch_based_runner(Attr(config, "runner")) =>
              /\ HasAttr(Attr(config, "runner"), "max_epochs")
              /\ Attr(Attr(config, "runner"), "max_epochs") = Attr(prev, "total_epochs")

\* the part of C7 the code keeps: when the epoch based runner already has a
\* max_epochs (or the runner is iteration based) the move happens, and a
\* differing max_epochs produces exactly the conflict warning
C7_MovedWhenMaxEpochsPresent ==
    (IsPatch /\ HadRunner /\ HasAttr(prev, "total_epochs")
       /\ HasAttr(prev, "runner")
       /\ (is_epoch_based_runner(Attr(prev, "runner"))
             => HasAttr(Attr(prev, "runner"), "max_epochs"))) =>
        /\ ret.err = Ok
        /\ ~HasAttr(config, "total_epochs")
        /\ is_epoch_based_runner(Attr(prev, "runner")) =>
              /\ Attr(Attr(config, "runner"), "max_epochs") = Attr(prev, "total_epochs")
              /\ (Attr(Attr(prev, "runner"), "max_epochs") # Attr(prev, "total_epochs"))
                    <=> ret.warnings = <<ConflictWarning>>

---------------------------------------------------------------------------
(* C8 *)

\* C8: optimize called with an optimization type other than NNCF raises
\* RuntimeError with the task as it was (_is_training, _data_cfg,
\* _time_monitor and _model_ckpt keep their values), without a call of
\* _optimize and with output_model untouched.
C8_OnlyNncfSupported ==
    (call.op = "optimize" /\ call.optimization_type # "NNCF") =>
        /\ ret.err = "RuntimeError"
        /\ pc = "idle"
        /\ task._is_training = call.task._is_training
        /\ task._data_cfg = call.task._data_cfg
        /\ task._time_monitor = call.task._time_monitor
        /\ task._model_ckpt = call.task._model_ckpt
        /\ task = call.task
        /\ "_optimize" \notin Range(events)
        /\ output_model = call.output_model

\* an unsupported type handed to a task that has already optimized a model
C8_Witness ==
    /\ call.op = "optimize"
    /\ call.optimization_type = "POT"
    /\ task._data_cfg # None
    /\ task._time_monitor # None
    /\ output_model.data # {}

---------------------------------------------------------------------------
(* C9 *)

Constructed == pc \in {"idle", "in_optimize"}

\* C9: initialisation derives preset, methods and precision from the two
\* flags as the table says; with neither flag it raises RuntimeError; every
\* constructed task has a preset and at least one optimization method.
C9_SetupFromFlags ==
    /\ Constructed =>
         LET q == task.enable_quantization
             p == task.enable_pruning
         IN  /\ (q /\ p) =>
                   /\ task._nncf_preset = Str("nncf_quantization_pruning")
                   /\ task._optimization_methods = <<"QUANTIZATION", "FILTER_PRUNING">>
                   /\ task._precision = <<"INT8">>
             /\ (q /\ ~p) =>
                   /\ task._nncf_preset = Str("nncf_quantization")
                   /\ task._optimization_methods = <<"QUANTIZATION">>
                   /\ task._precision = <<"INT8">>
             /\ (~q /\ p) =>
                   /\ task._nncf_preset = Str("nncf_pruning")
                   /\ task._optimization_methods = <<"FILTER_PRUNING">>
                   /\ task._precision = <<"FP32">>
             /\ q \/ p
             /\ task._nncf_preset # None
             /\ task._optimization_methods # <<>>
    /\ (call.op = "__init__" /\ ~call.enable_quantization /\ ~call.enable_pruning) =>
         /\ ret.err = "RuntimeError"
         /\ pc = "failed"
    /\ pc = "failed" => ~task.enable_quantization /\ ~task.enable_pruning

\* a task constructed for pruning alone
C9_Witness ==
    /\ call.op = "__init__"
    /\ pc = "idle"
    /\ ~task.enable_quantization
    /\ task.enable_pruning
    /\ task._precision = <<"FP32">>

---------------------------------------------------------------------------
(* C10 *)

\* optimize has just run from the return of _optimize to its end
Returned == "stopped" \in DOMAIN ret
Called(step) == step \in Range(events)
\* step a comes before step b in the call's events
Precedes(a, b) ==
    \A i, j \in 1..Len(events) : (events[i] = a /\ events[j] = b) => i < j

\* C10: when the stop flag is up at the return of _optimize, optimize
\* returns without loading a checkpoint, without _optimize_post_hook or
\* save_model, with output_model and _model_ckpt as they were and with
\* _should_stop and _is_training False; otherwise save_model is called
\* after the merged checkpoint is written and before output_model's
\* format, optimization type, methods and precision are set.
C10_CancelledPublishesNothing ==
    Returned =>
        IF ret.stopped THEN
            /\ ret.err = Ok
            /\ ~Called("torch.load")
            /\ ~Called("torch.save")
            /\ ~Called("_optimize_post_hook")
            /\ ~Called("save_model")
            /\ ~Called("set_output_model")
            /\ output_model = ret.output_model
            /\ task._model_ckpt = ret.task._model_ckpt
            /\ ~task._should_stop
            /\ ~task._is_training
        ELSE
            /\ Called("save_model") => Called("torch.save")
            /\ Precedes("torch.save", "save_model")
            /\ Precedes("save_model", "set_output_model")
            /\ Called("set_output_model") => Called("save_model")
            /\ ret.err = Ok =>
                  /\ Called("save_model")
                  /\ Called("set_output_model")
                  /\ output_model.data = ret.output_model.data
                                           \cup {"weights.pth", "label_schema.json"}
                  /\ output_model.model_format = "BASE_FRAMEWORK"
                  /\ output_model.optimization_type = task._optimization_type
                  /\ output_model.optimization_methods = task._optimization_methods
                  /\ output_model.precision = task._precision
            /\ ret.err # Ok => output_model.model_format = ret.output_model.model_format

\* a run cancelled after an earlier run had published a model
C10_Witness ==
    /\ Returned
    /\ ret.stopped
    /\ ret.task._is_training
    /\ ret.task._model_ckpt \notin LoadedCheckpoints
    /\ output_model.model_format = "BASE_FRAMEWORK"

---------------------------------------------------------------------------
(* C11 *)

\* the steps of main in the order of the code
MainOrder ==
    << "override_parameters", "dataset_class", "TaskEnvironment", "load_model_weights",
       "task_class", "train", "write", "infer", "evaluate" >>
RankOf(step) == CHOOSE i \in 1..Len(MainOrder) : MainOrder[i] = step
\* the value the user gave for a parameter, if any
UserGave(key) == \E i \in 1..Len(call.updated) : call.updated[i].key = key
UserValue(key) ==
    call.updated[CHOOSE i \in 1..Len(call.updated) : call.updated[i].key = key].value
\* the value of a parameter in the hyper-parameters the task was built with
TaskValue(key) ==
    LET params == task.task_environment.hyper_parameters.configurable_parameters
    IN  params[CHOOSE i \in 1..Len(params) : params[i].key = key].value

\* C11: the task is constructed from hyper-parameters in which every value
\* the user gave has replaced the template's default and every other
\* default stands; the steps of main run at most once each in the order
\* override, dataset and environment, load weights (exactly when
\* --load-weights is given), task, train, write (exactly when the status is
\* no longer NOT_READY), infer, evaluate; a run that ends normally has
\* inferred and evaluated whether or not it has written the weights.
C11_CliStepsInOrder ==
    /\ call.op = "main"
    /\ \A i, j \in 1..Len(events) :
         i < j => RankOf(events[i]) < RankOf(events[j])
    /\ Called("task_class") =>
         /\ Called("override_parameters")
         /\ Called("TaskEnvironment")
         /\ \A e \in Range(TemplateDefaults.map) :
              TaskValue(e.key) = IF UserGave(e.key) THEN UserValue(e.key) ELSE e.value
         /\ Called("load_model_weights") <=> ~IsNone(call.load_weights)
         /\ IF IsNone(call.load_weights)
            THEN task.task_environment.model = None
            ELSE task.task_environment.model.weights = call.load_weights
    /\ Called("load_model_weights") => ~IsNone(call.load_weights)
    /\ Called("train") => Called("task_class")
    /\ Called("write") =>
         /\ Called("train")
         /\ output_model.model_status # "NOT_READY"
         /\ ret.written = {call.save_weights}
    /\ ~Called("write") => ret.written = {}
    /\ Called("infer") =>
         /\ Called("train")
         /\ Called("write") <=> output_model.model_status # "NOT_READY"
    /\ Called("evaluate") => Called("infer")
    /\ pc = "done" => Called("infer") /\ Called("evaluate") /\ ret.err = Ok

\* a run with loaded weights and two user values that ends normally without
\* having written the weights file
C11_Witness ==
    /\ pc = "done"
    /\ Len(call.updated) = 2
    /\ TaskValue(K("learning_rate")) = Int_(3)
    /\ Called("load_model_weights")
    /\ ~Called("write")
    /\ Called("evaluate")

---------------------------------------------------------------------------
(* C12 *)

Imported(m) == m \in modules

\* C12: once the segmentation patches module is imported BaseSegmentor has
\* a nncf_trace_context that is not None; once the common patches module is
\* imported, NNCFNetwork.train_step is nncf_train_step if NNCF is enabled
\* and each evaluate method is wrapped, once, by evaluation_wrapper; an
\* evaluate call made after that import returns what the wrapped method
\* returned and leaves in runner.all_metrics an object of its own that
\* equals runner.log_buffer.output as the wrapped method left it.
C12_ImportInstallsPatches ==
    /\ Imported(SegPatches) => classes["BaseSegmentor.nncf_trace_context"] # None
    /\ (Imported(CommonPatches) /\ is_nncf_enabled(modules)) =>
          classes["NNCFNetwork.train_step"].fn = "nncf_train_step"
    /\ Imported(CommonPatches) =>
          \A m \in EvaluateMethods : classes[m].wrappers = <<"evaluation_wrapper">>
    /\ (call.op = "evaluate" /\ Imported(CommonPatches)) =>
          /\ ret.out = call.score
          /\ mmcv_runner.log_buffer_output.items = call.metrics
          /\ mmcv_runner.all_metrics # None
          /\ mmcv_runner.all_metrics.items = mmcv_runner.log_buffer_output.items
          /\ mmcv_runner.all_metrics.id # mmcv_runner.log_buffer_output.id

\* a second evaluation, with other metrics than the first, after both
\* modules were imported with NNCF enabled
C12_Witness ==
    /\ call.op = "evaluate"
    /\ Imported(CommonPatches)
    /\ Imported(SegPatches)
    /\ is_nncf_enabled(modules)
    /\ ncalls = 2
    /\ call.score # None
    /\ Len(mmcv_runner.all_metrics.items) = 1

---------------------------------------------------------------------------
(* C13 *)

\* the runner the last patch call worked on: the one of the config, or the
\* one patch_config creates when there is none
RunnerBefore ==
    IF HasAttr(prev, "runner") THEN Attr(prev, "runner")
    ELSE Map(<<E(K("type"), Str("EpochBasedRunner"))>>)
ReplacementFor(runner_config) ==
    IF is_epoch_based_runner(runner_config)
    THEN Str("EpochRunnerWithCancel") ELSE Str("IterBasedRunnerWithCancel")

\* C13 (the claim as stated): for every runner type, the two replacement
\* types included, a patch call on a config with a runner leaves runner.type
\* EpochRunnerWithCancel when the previous type contains "Epoch" and
\* IterBasedRunnerWithCancel otherwise, and a second patch_runner would
\* leave the config as the first left it.
C13_RunnerTypeStable ==
    (IsPatch /\ HadRunner) =>
        /\ HasAttr(config, "runner")
        /\ Attr(Attr(config, "runner"), "type") = ReplacementFor(RunnerBefore)
        /\ patch_runner(config).node = config

\* the part of C13 the code keeps: a call that gets as far as "Change
\* runner's type" replaces the type as the claim says, keeps the
\* classification, and a second patch_runner changes nothing
C13_ReplacedWhenReached ==
    (IsPatch /\ HadRunner /\ ret.err = Ok) =>
        /\ Attr(Attr(config, "runner"), "type") = ReplacementFor(RunnerBefore)
        /\ is_epoch_based_runner(Attr(config, "runner"))
             <=> is_epoch_based_runner(RunnerBefore)
        /\ patch_runner(config).node = config
        /\ patch_runner(config).err = Ok

(***************************************************************************)
(* C14                                                                     *)
(***************************************************************************)

CancelHook == Map(<<E(K("type"), Str("CancelTrainingHook"))>>)

\* the hooks of a config, none when custom_hooks is absent
HooksOf(cfg) == IF HasAttr(cfg, "custom_hooks") THEN Items(Attr(cfg, "custom_hooks")) ELSE <<>>

CancelHooks(hooks) == {i \in 1..Len(hooks) : Attr(hooks[i], "type") = Str("CancelTrainingHook")}

\* the call of patch_config got past the runner step, to the hook step
ReachedHooks == call.op = "patch_config" /\ patch_config_runner(prev).err = Ok

\* C14: when a call of patch_config reaches its hook step, custom_hooks is
\* afterwards a list that holds the hooks it held before in their order,
\* followed by one CancelTrainingHook exactly when it held none; a config
\* that had at most one CancelTrainingHook has exactly one afterwards,
\* however many calls came before.
C14_CancelHookOnce ==
    ReachedHooks =>
        LET old == HooksOf(prev)
            new == HooksOf(config)
        IN  /\ HasAttr(config, "custom_hooks")
            /\ IsList(Attr(config, "custom_hooks"))
            /\ new = IF CancelHooks(old) = {} THEN Append(old, CancelHook) ELSE old
            /\ Cardinality(CancelHooks(old)) <= 1 => Cardinality(CancelHooks(new)) = 1

\* a second call finds the hook the first call appended after the one hook
\* of the config, and appends nothing
C14_Witness ==
    /\ ReachedHooks
    /\ ncalls = 2
    /\ Len(HooksOf(prev)) = 2
    /\ HooksOf(prev)[2] = CancelHook
    /\ HooksOf(config) = HooksOf(prev)

(***************************************************************************)
(* C15                                                                     *)
(***************************************************************************)

IsWriteBack == call.op = "write_back"

\* a found path passes through or ends in a sequence index
ThroughSequence(tree, found) == \E i \in 1..Len(found) : ~MappingsAlong(tree, found[i].path)

\* C15: writing the result of get_configs_by_keys(config, keys,
\* return_path=True) back with update_config completes without error and
\* leaves config equal to what it was, whatever the paths are.
C15_WriteBackRoundTrips == IsWriteBack => ret.err = Ok /\ config = prev

\* what the code does: config is left as it was, and the call completes
\* exactly when no found path goes through a sequence; otherwise the bounds
\* assertion fails
C15_WriteBackKeepsConfig ==
    IsWriteBack =>
        /\ config = prev
        /\ ret.err = Ok <=> ~ThroughSequence(prev, call.found)
        /\ ret.err \in {Ok, "AssertionError"}

(***************************************************************************)
(* C16                                                                     *)
(***************************************************************************)

\* a query was made with return_path False
IsListQuery == "return_path" \in DOMAIN call /\ ~call.return_path

\* what the same query returns when return_path is True
WithPaths ==
    IF call.op = "get_configs_by_keys" THEN get_configs_by_keys(prev, call.keys)
    ELSE get_configs_by_dict(prev, call.pairs)

\* the number of entries a matched node contributes to the list
Width(node) == IF IsSequence(node) THEN Len(Items(node)) ELSE 1

\* the number of entries the first n matched nodes contribute
Offset(found, n) ==
    LET Sum[i \in 0..Len(found)] == IF i = 0 THEN 0 ELSE Sum[i - 1] + Width(found[i].node)
    IN  Sum[n]

\* C16: with return_path False both queries return the matched nodes in the
\* order of the values of the return_path True result, a matched list or
\* tuple contributing its elements in order in place of itself (the
\* elements as they are, one level only) and any other matched node
\* contributing itself once; every entry is a node of the config.
C16_ListFollowsPaths ==
    IsListQuery =>
        LET found == WithPaths
            out == ret.out
        IN  /\ Len(out) = Offset(found, Len(found))
            /\ \A i \in 1..Len(found) :
                 LET node == found[i].node
                     at == Offset(found, i - 1)
                 IN  IF IsSequence(node)
                     THEN \A k \in 1..Len(Items(node)) : out[at + k].node = Items(node)[k]
                     ELSE out[at + 1].node = node
            /\ \A j \in 1..Len(out) :
                 HasAt(prev, out[j].path) /\ NodeAt(prev, out[j].path) = out[j].node
            /\ Cardinality({i \in 1..Len(found) : ~IsSequence(found[i].node)})
                 = Len(out) - Offset(SelectSeq(found, LAMBDA f : IsSequence(f.node)),
                                     Len(SelectSeq(found, LAMBDA f : IsSequence(f.node))))

\* a mapping and a list of three are matched: the list has four entries
C16_Witness ==
    /\ IsListQuery
    /\ call.op = "get_configs_by_keys"
    /\ Len(WithPaths) = 2
    /\ IsMapping(WithPaths[1].node)
    /\ IsList(WithPaths[2].node)
    /\ Len(ret.out) = 4
    /\ ret.out[4].node = WithPaths[2].node.list[3]

(***************************************************************************)
(* C17                                                                     *)
(***************************************************************************)

\* the mapping lacks the key of one of the pairs
LacksKey(node, pairs) ==
    IsMapping(node) /\ \E i \in 1..Len(pairs) : ~Contains(node, pairs[i].key)

\* C17: get_configs_by_dict never returns a mapping that lacks a key of
\* pairs, whatever value is asked for that key, None included.
C17_AbsentKeyNeverMatches ==
    IsDictQuery => \A i \in 1..Len(ret.out) : ~LacksKey(ret.out[i].node, call.pairs)

\* what the code does: a key that is absent reads as None, so a mapping
\* that lacks a key is returned exactly when None is the value asked for
\* every key it lacks
C17_AbsentKeyReadsAsNone ==
    IsDictQuery =>
        \A i \in 1..Len(ret.out) : \A j \in 1..Len(call.pairs) :
            \/ /\ Contains(ret.out[i].node, call.pairs[j].key)
               /\ GetItem(ret.out[i].node, call.pairs[j].key) = call.pairs[j].value
            \/ /\ ~Contains(ret.out[i].node, call.pairs[j].key)
               /\ call.pairs[j].value = None

(***************************************************************************)
(* C18                                                                     *)
(***************************************************************************)

IsDatasetQuery == call.op = "get_dataset_configs" /\ ret.err = Ok

\* where config.data[subset] is, and what it is (None when absent)
SubsetAt == <<K("data"), K(call.subset)>>
SubsetCfg == GetOrNone(Attr(prev, "data"), K(call.subset))

\* what get_configs_by_keys finds in the subset config, with paths
UnderDatasetKeys == get_configs_by_keys(SubsetCfg, List(<<K("dataset"), K("datasets")>>))

\* out lists the found nodes in order, a list or tuple by its elements
ListsFound(out, found) ==
    /\ Len(out) = Offset(found, Len(found))
    /\ \A i \in 1..Len(found) :
         LET node == found[i].node
             at == Offset(found, i - 1)
         IN  IF IsSequence(node)
             THEN \A k \in 1..Len(Items(node)) : out[at + k].node = Items(node)[k]
             ELSE out[at + 1].node = node

\* out holds the subset config itself and nothing else
ListsSubset(out) == out = <<[path |-> SubsetAt, node |-> SubsetCfg]>>

\* every element of out is a mapping of the config, named by its place
NodesOfConfig(out) ==
    \A j \in 1..Len(out) :
        /\ HasAt(prev, out[j].path)
        /\ NodeAt(prev, out[j].path) = out[j].node
        /\ IsMapping(out[j].node)

DatasetCfgs(cfg) ==
    UNION { {get_dataset_configs(cfg, subset).out[i].node :
               i \in 1..Len(get_dataset_configs(cfg, subset).out)} :
            subset \in {"train", "val", "test"} }

\* patch_datasets was called on a config with a data section whose dataset
\* configs all have a pipeline
PatchedDatasets ==
    /\ call.op = "patch_datasets"
    /\ HasAttr(prev, "data")
    /\ \A cfg \in DatasetCfgs(prev) : HasAttr(cfg, "pipeline")

\* the load steps of the pipeline carry their new names
StepPatched(step, domain) ==
    /\ ~HasType(step, "LoadImageFromFile")
    /\ ~HasType(step, "LoadAnnotations")
    /\ HasType(step, "LoadAnnotationFromOTXDataset") =>
         HasAttr(step, "domain") /\ Attr(step, "domain") = domain /\ HasAttr(step, "min_size")

\* a dataset config as patch_datasets is to leave it
DatasetPatched(cfg, domain) ==
    /\ HasType(cfg, "MPADetDataset")
    /\ HasAttr(cfg, "domain") /\ Attr(cfg, "domain") = domain
    /\ HasAttr(cfg, "otx_dataset") /\ Attr(cfg, "otx_dataset") = None
    /\ HasAttr(cfg, "labels") /\ Attr(cfg, "labels") = None
    /\ ~HasAttr(cfg, "ann_file") /\ ~HasAttr(cfg, "img_prefix") /\ ~HasAttr(cfg, "classes")
    /\ \A i \in 1..Len(Items(Attr(cfg, "pipeline"))) :
         StepPatched(Items(Attr(cfg, "pipeline"))[i], domain)

\* C19: on a config with a data section whose train, val and test dataset
\* configs have a pipeline, patch_datasets completes without error and
\* leaves every dataset config with type MPADetDataset, the given domain,
\* otx_dataset and labels None, without ann_file, img_prefix and classes,
\* and with the load steps of its pipeline renamed.
C19_DatasetsPatched ==
    PatchedDatasets =>
        /\ ret.err = Ok
        /\ \A cfg \in DatasetCfgs(config) : DatasetPatched(cfg, call.domain)

\* what the code does: with a dataset config to patch, the call ends in the
\* assertion of patch_color_conversion, which is handed the pipeline; only
\* without any dataset config does it complete
C19_StopsAtColorConversion ==
    PatchedDatasets =>
        ret.err = IF DatasetCfgs(prev) = {} THEN Ok ELSE "AssertionError"

(***************************************************************************)
(* C20                                                                     *)
(***************************************************************************)

IsNormalize(node) == IsMapping(node) /\ GetOrNone(node, K("type")) = Str("Normalize")

\* the truth value of to_rgb, False when the key is absent
RgbOf(node) == HasAttr(node, "to_rgb") /\ Truthy(Attr(node, "to_rgb"))

\* the tree with to_rgb negated in the Normalize nodes met on the way down
\* through mappings and sequences, and nothing else changed
RECURSIVE Negated(_)
Negated(tree) ==
    IF IsNormalize(tree) THEN SetAttr(tree, "to_rgb", Bool(~RgbOf(tree)))
    ELSE IF IsMapping(tree)
        THEN Map([i \in 1..Len(tree.map) |-> E(tree.map[i].key, Negated(tree.map[i].value))])
    ELSE IF IsSequence(tree)
        THEN WithItems(tree, [i \in 1..Len(Items(tree)) |-> Negated(Items(tree)[i])])
    ELSE tree

ColorConverted == call.op = "patch_color_conversion" /\ ret.err = Ok

\* the Normalize nodes of the config before the call that had a to_rgb
WithRgb ==
    {path \in PathsOf(prev) :
        /\ path # <<>>
        /\ Head(path) = K("data")
        /\ IsNormalize(NodeAt(prev, path))
        /\ HasAttr(NodeAt(prev, path), "to_rgb")}

Aligned ==
    /\ call.op = "align_data_config_with_recipe"
    /\ \A i \in 1..Len(Attr(prev, "data").map) : IsMapping(Attr(prev, "data").map[i].value)

\* the subsets of the data config, and the top-level keys of each, before
\* the call
SubsetKeys == {e.key : e \in Range(Attr(prev, "data").map)}
TopKeys(subset) == {e.key : e \in Range(GetItem(Attr(prev, "data"), subset).map)}

\* where the recipe holds the key in its data[subset]
RecipePaths(subset, key) ==
    get_configs_by_keys(GetOrNone(Attr(call.recipe, "data"), subset), key)

AllUnique == \A subset \in SubsetKeys : \A key \in TopKeys(subset) : Len(RecipePaths(subset, key)) = 1

\* the node is the value that was moved: the equal value, or for a mapping
\* the same mapping, which may since have received keys moved into it
IsMoved(node, value) ==
    IF IsMapping(value)
    THEN IsMapping(node) /\ \A e \in Range(value.map) :
             Contains(node, e.key) /\ GetItem(node, e.key) = e.value
    ELSE node = value

\* every top-level key of every subset is where the recipe holds it
AllMoved ==
    \A subset \in SubsetKeys : \A key \in TopKeys(subset) :
        LET path == RecipePaths(subset, key)[1].path
            after == GetItem(Attr(config, "data"), subset)
        IN  /\ HasAt(after, path)
            /\ IsMoved(NodeAt(after, path), GetItem(GetItem(Attr(prev, "data"), subset), key))
            /\ path # <<key>> => ~Contains(after, key)

\* C21: align_data_config_with_recipe moves every top-level key of every
\* data_config.data[subset] to the one path at which the recipe's
\* data[subset] holds the key: afterwards the path leads to the value and
\* the key is gone from the top level unless the path is the key; when the
\* recipe holds a key at no path or at several, or has no such subset, the
\* assertion len(found_config) == 1 fails.
C21_KeysMovedToRecipePaths ==
    Aligned =>
        IF AllUnique THEN ret.err = Ok /\ AllMoved
        ELSE ret.err = "AssertionError"

\* no path of the recipe leads through a node that the subset config
\* already holds and that is not a mapping
PathsFree ==
    \A subset \in SubsetKeys : \A key \in TopKeys(subset) :
        LET path == RecipePaths(subset, key)[1].path
            before == GetItem(Attr(prev, "data"), subset)
        IN  \A n \in 1..(Len(path) - 1) :
                HasAt(before, Prefix(path, n)) => IsMapping(NodeAt(before, Prefix(path, n)))

\* what the code does: the keys are moved when the places on the way are
\* free or mappings; a list on the way ends the call in the bounds assertion
\* of update_config, a scalar in a TypeError
C21_MovedWhenPathsFree ==
    Aligned /\ AllUnique =>
        IF PathsFree THEN ret.err = Ok /\ AllMoved
        ELSE ret.err \in {"AssertionError", "TypeError"}

\* two keys of train moved under the key dataset, which the call created
C21_Moved ==
    /\ Aligned /\ AllUnique /\ ret.err = Ok
    /\ \E subset \in SubsetKeys :
         /\ ~Contains(GetItem(Attr(prev, "data"), subset), K("dataset"))
         /\ Cardinality({key \in TopKeys(subset) :
                           RecipePaths(subset, key)[1].path = <<K("dataset"), key>>}) = 2

(***************************************************************************)
(* C22                                                                     *)
(***************************************************************************)

UpdateFailed == call.op = "update_config" /\ ret.err # Ok

\* C22: when update_config ends with an error for one of the paths of
\* updates, config is equal to what it was before the call: no earlier path
\* has been applied and no mapping has been created on the way.
C22_AllOrNothing == UpdateFailed => config = prev

\* what the code does: the items before the one that failed stay written,
\* and the failing item itself leaves nothing behind
C22_EarlierItemsStay ==
    UpdateFailed =>
        \E n \in 0..(Len(call.updates) - 1) :
            /\ update_config(prev, SubSeq(call.updates, 1, n)) = [node |-> config, err |-> Ok]
            /\ update_config(config, <<call.updates[n + 1]>>) = [node |-> config, err |-> ret.err]

\* the first item was written, creating a mapping on its way, and the second
\* failed
C22_FirstItemStays ==
    /\ UpdateFailed
    /\ Len(call.updates) = 2
    /\ Len(call.updates[1].path) = 2
    /\ ~HasAt(prev, Prefix(call.updates[1].path, 1))
    /\ HasAt(config, call.updates[1].path)
    /\ NodeAt(config, call.updates[1].path) = call.updates[1].value

=============================================================================
